---- MODULE Spec2Model ----
(***************************************************************************)
(* causy: the graph store (UndirectedGraph), the apply pass                *)
(* (AbstractGraphModel._take_action), the execution of one pipeline step   *)
(* (execute_pipeline_step, sequential and parallel) and the logic steps    *)
(* Loop and ApplyActionsTogether.                                          *)
(***************************************************************************)
EXTENDS Integers, Sequences, FiniteSets, TLC

VARIABLES
    nodes,          \* UndirectedGraph.nodes: the keys of the dict, in insertion order
    edges,          \* UndirectedGraph.edges: u -> (v -> payload)
    edge_history,   \* UndirectedGraph.edge_history: <<u, v>> -> list of TestResult
    action_history, \* UndirectedGraph.action_history: list of {step, actions}
    err,            \* the exception the last call raised, or "ok"
    pipeline_steps, \* AbstractGraphModel.pipeline_steps
    pos,            \* execute_pipeline_steps: the index of the step the for loop is at
    pc,             \* where the engine is
    step,           \* the Test step execute_pipeline_step runs (test_fn)
    cands,          \* what the candidate generator has still to yield
    iterator,       \* sequential mode: the list of test outcomes (line 478)
    inflight,       \* parallel mode: dispatched tasks whose result has not been consumed
    actions_taken,  \* execute_pipeline_step's local list, returned to the caller
    logic,          \* the locals of the Logic step that is executing, or NoLogic
    next_id,        \* how many TestResult objects the tests have built
    cap,            \* how many of them the run is followed for
    op,             \* the last call a client of the graph store made, and what it met
    seen,           \* the test calls of the running step: the graph handed over, the outcome
    start,          \* the graph when the running step and the running Logic step began
    calls           \* the running Logic step: its exit_condition calls and its child calls

vars == <<nodes, edges, edge_history, action_history, err, pipeline_steps, pos, pc,
          step, cands, iterator, inflight, actions_taken, logic, next_id, cap, op,
          seen, start, calls>>

----------------------------------------------------------------------------
(* Bounds of the model *)

\* TestResult objects with an action other than DO_NOTHING that the tests of one
\* run build: in a pipeline of Test steps, and in a pipeline with a Logic step
MaxResults == 3
MaxLogicResults == 2
\* rounds a Loop with an arbitrary exit condition is followed for
MaxRounds == 2

Names == {"A", "B", "C"}
NoneVal == "None"

\* the payload {} every edge is created with, and the payload a test computes
EmptyPayload == "{}"
Data == {"d"}
Payloads == {EmptyPayload} \cup Data

REMOVE_EDGE_UNDIRECTED == "REMOVE_EDGE_UNDIRECTED"
UPDATE_EDGE == "UPDATE_EDGE"
UPDATE_EDGE_DIRECTED == "UPDATE_EDGE_DIRECTED"
DO_NOTHING == "DO_NOTHING"
REMOVE_EDGE_DIRECTED == "REMOVE_EDGE_DIRECTED"
TestResultAction ==
    {REMOVE_EDGE_UNDIRECTED, UPDATE_EDGE, UPDATE_EDGE_DIRECTED, DO_NOTHING,
     REMOVE_EDGE_DIRECTED}

OK == "ok"
UndirectedGraphError == "UndirectedGraphError"

----------------------------------------------------------------------------
(* Python dicts and lists *)

EmptyDict == [k \in {} |-> 0]
DictSet(d, k, v) == [x \in (DOMAIN d) \cup {k} |-> IF x = k THEN v ELSE d[x]]
DictDel(d, k) == [x \in (DOMAIN d) \ {k} |-> d[x]]
Range(s) == {s[i] : i \in DOMAIN s}

RECURSIVE Flatten(_)
\* a list of lists, chained
Flatten(ss) == IF ss = <<>> THEN <<>> ELSE Head(ss) \o Flatten(Tail(ss))

----------------------------------------------------------------------------
(* UndirectedGraph.  A graph value g has the fields nodes, edges, hist; an  *)
(* operation returns the new edges and hist and the exception it raised.   *)

Graph(n, e, h) == [nodes |-> n, edges |-> e, hist |-> h]
Ret(e, h, x) == [edges |-> e, hist |-> h, err |-> x]
Raise(g, x) == Ret(g.edges, g.hist, x)

HasNode(g, u) == u \in Range(g.nodes)

\* add_edge without "self.edges[v][u] = value"
add_edgeOneWay(g, u, v, value) ==
    IF ~HasNode(g, u) \/ ~HasNode(g, v) THEN Raise(g, UndirectedGraphError)
    ELSE LET e1 == IF u \in DOMAIN g.edges THEN g.edges ELSE DictSet(g.edges, u, EmptyDict)
             e2 == IF v \in DOMAIN e1 THEN e1 ELSE DictSet(e1, v, EmptyDict)
             e3 == DictSet(e2, u, DictSet(e2[u], v, value))
             h1 == DictSet(g.hist, <<u, v>>, <<>>)
             h2 == DictSet(h1, <<v, u>>, <<>>)
         IN  Ret(e3, h2, OK)

\* add_edge without the checks of lines 65-68
add_edgeUnchecked(g, u, v, value) ==
    LET e1 == IF u \in DOMAIN g.edges THEN g.edges ELSE DictSet(g.edges, u, EmptyDict)
        e2 == IF v \in DOMAIN e1 THEN e1 ELSE DictSet(e1, v, EmptyDict)
        e3 == DictSet(e2, u, DictSet(e2[u], v, value))
        e4 == DictSet(e3, v, DictSet(e3[v], u, value))
        h1 == DictSet(g.hist, <<u, v>>, <<>>)
        h2 == DictSet(h1, <<v, u>>, <<>>)
    IN  Ret(e4, h2, OK)

add_edge(g, u, v, value) ==
    IF ~HasNode(g, u) \/ ~HasNode(g, v) THEN Raise(g, UndirectedGraphError)
    ELSE LET e1 == IF u \in DOMAIN g.edges THEN g.edges ELSE DictSet(g.edges, u, EmptyDict)
             e2 == IF v \in DOMAIN e1 THEN e1 ELSE DictSet(e1, v, EmptyDict)
             e3 == DictSet(e2, u, DictSet(e2[u], v, value))
             e4 == DictSet(e3, v, DictSet(e3[v], u, value))
             h1 == DictSet(g.hist, <<u, v>>, <<>>)
             h2 == DictSet(h1, <<v, u>>, <<>>)
         IN  Ret(e4, h2, OK)

retrieve_edge_history(g, u, v, action) ==
    IF action = NoneVal THEN g.hist[<<u, v>>]
    ELSE SelectSeq(g.hist[<<u, v>>], LAMBDA i : i.action = action)

add_edge_history(g, u, v, action) ==
    LET h1 == IF <<u, v>> \in DOMAIN g.hist THEN g.hist
              ELSE DictSet(g.hist, <<u, v>>, <<>>)
    IN  Ret(g.edges, DictSet(h1, <<u, v>>, Append(h1[<<u, v>>], action)), OK)

\* remove_edge that raises where line 117 returns
remove_edgeStrict(g, u, v) ==
    IF ~HasNode(g, u) \/ ~HasNode(g, v) THEN Raise(g, UndirectedGraphError)
    ELSE IF u \notin DOMAIN g.edges \/ v \notin DOMAIN g.edges
    THEN Raise(g, UndirectedGraphError)
    ELSE IF v \notin DOMAIN g.edges[u] THEN Raise(g, UndirectedGraphError)
    ELSE LET e1 == DictSet(g.edges, u, DictDel(g.edges[u], v))
         IN  IF u \notin DOMAIN e1[v] THEN Ret(e1, g.hist, OK)
             ELSE Ret(DictSet(e1, v, DictDel(e1[v], u)), g.hist, OK)

remove_edge(g, u, v) ==
    IF ~HasNode(g, u) \/ ~HasNode(g, v) THEN Raise(g, UndirectedGraphError)
    ELSE IF u \notin DOMAIN g.edges \/ v \notin DOMAIN g.edges
    THEN Raise(g, UndirectedGraphError)
    ELSE IF v \notin DOMAIN g.edges[u] THEN Ret(g.edges, g.hist, OK)
    ELSE LET e1 == DictSet(g.edges, u, DictDel(g.edges[u], v))
         IN  IF u \notin DOMAIN e1[v] THEN Ret(e1, g.hist, OK)
             ELSE Ret(DictSet(e1, v, DictDel(e1[v], u)), g.hist, OK)

\* a removal that deletes v->u as well
remove_directed_edgeBoth(g, u, v) == remove_edge(g, u, v)

remove_directed_edge(g, u, v) ==
    IF ~HasNode(g, u) \/ ~HasNode(g, v) THEN Raise(g, UndirectedGraphError)
    ELSE IF u \notin DOMAIN g.edges \/ v \notin DOMAIN g.edges
    THEN Raise(g, UndirectedGraphError)
    ELSE IF v \notin DOMAIN g.edges[u] THEN Ret(g.edges, g.hist, OK)
    ELSE Ret(DictSet(g.edges, u, DictDel(g.edges[u], v)), g.hist, OK)

\* update_edge without "self.edges[v][u] = value"
update_edgeOneWay(g, u, v, value) ==
    IF ~HasNode(g, u) \/ ~HasNode(g, v) THEN Raise(g, UndirectedGraphError)
    ELSE IF u \notin DOMAIN g.edges \/ v \notin DOMAIN g.edges
    THEN Raise(g, UndirectedGraphError)
    ELSE Ret(DictSet(g.edges, u, DictSet(g.edges[u], v, value)), g.hist, OK)

update_edge(g, u, v, value) ==
    IF ~HasNode(g, u) \/ ~HasNode(g, v) THEN Raise(g, UndirectedGraphError)
    ELSE IF u \notin DOMAIN g.edges \/ v \notin DOMAIN g.edges
    THEN Raise(g, UndirectedGraphError)
    ELSE LET e1 == DictSet(g.edges, u, DictSet(g.edges[u], v, value))
         IN  Ret(DictSet(e1, v, DictSet(e1[v], u, value)), g.hist, OK)

update_directed_edge(g, u, v, value) ==
    IF ~HasNode(g, u) \/ ~HasNode(g, v) THEN Raise(g, UndirectedGraphError)
    ELSE IF u \notin DOMAIN g.edges THEN Raise(g, UndirectedGraphError)
    ELSE IF v \notin DOMAIN g.edges[u] THEN Raise(g, UndirectedGraphError)
    ELSE Ret(DictSet(g.edges, u, DictSet(g.edges[u], v, value)), g.hist, OK)

edge_exists(g, u, v) ==
    IF ~HasNode(g, u) THEN FALSE
    ELSE IF ~HasNode(g, v) THEN FALSE
    ELSE IF u \in DOMAIN g.edges /\ v \in DOMAIN g.edges[u] THEN TRUE
    ELSE IF v \in DOMAIN g.edges /\ u \in DOMAIN g.edges[v] THEN TRUE
    ELSE FALSE

directed_edge_exists(g, u, v) ==
    IF ~HasNode(g, u) THEN FALSE
    ELSE IF ~HasNode(g, v) THEN FALSE
    ELSE IF u \notin DOMAIN g.edges THEN FALSE
    ELSE IF v \notin DOMAIN g.edges[u] THEN FALSE
    ELSE TRUE

\* edge_value: self.edges[u][v], for an entry that is present
edge_value(g, u, v) == g.edges[u][v]

\* true for either single direction
only_directed_edge_existsEither(g, u, v) ==
    directed_edge_exists(g, u, v) # directed_edge_exists(g, v, u)

only_directed_edge_exists(g, u, v) ==
    directed_edge_exists(g, u, v) /\ ~directed_edge_exists(g, v, u)

undirected_edge_exists(g, u, v) ==
    directed_edge_exists(g, u, v) /\ directed_edge_exists(g, v, u)

----------------------------------------------------------------------------
(* TestResult objects and what a test call returns: None, one TestResult   *)
(* or a list of TestResults.                                               *)

TestResult(id, x, y, action, data) ==
    [id |-> id, x |-> x, y |-> y, action |-> action, data |-> data]

RetNone == [tag |-> "None"]
RetOne(r) == [tag |-> "one", r |-> r]
RetList(rs) == [tag |-> "list", rs |-> rs]

\* the TestResult objects an outcome holds
Items(o) == IF o.tag = "None" THEN <<>> ELSE IF o.tag = "one" THEN <<o.r>> ELSE o.rs

\* bidirected_edge_exists: the same test as undirected_edge_exists
bidirected_edge_exists(g, u, v) ==
    directed_edge_exists(g, u, v) /\ directed_edge_exists(g, v, u)

----------------------------------------------------------------------------
(* The path queries of UndirectedGraph.  A query returns a value or raises; *)
(* where the order in which a dict is walked decides, every order is an    *)
(* outcome.  A call that is reached again from inside itself with the same *)
(* arguments never returns: Python ends it with a RecursionError.          *)

RecursionError == "RecursionError"

Answer(val) == [val |-> val, err |-> OK]
Fail(x) == [val |-> FALSE, err |-> x]

RECURSIVE PathExists(_, _, _, _)
\* directed_path_exists(u, v), called from inside the calls for the nodes of stack
PathExists(g, u, v, stack) ==
    IF directed_edge_exists(g, u, v) THEN {Answer(TRUE)}
    ELSE IF u \notin DOMAIN g.edges THEN {Fail("KeyError")}
    ELSE IF u \in stack THEN {Fail(RecursionError)}
    ELSE LET sub == [w \in DOMAIN g.edges[u] |-> PathExists(g, w, v, stack \cup {u})]
         IN  {a \in {Answer(TRUE), Fail("KeyError"), Fail(RecursionError)} :
                 \E w \in DOMAIN sub : a \in sub[w]}
             \cup (IF \A w \in DOMAIN sub : Answer(FALSE) \in sub[w] THEN {Answer(FALSE)} ELSE {})

directed_path_exists(g, u, v) == PathExists(g, u, v, {})

RECURSIVE Paths(_, _, _, _)
\* directed_paths(u, v), called from inside the calls for the nodes of stack: the
\* paths as lists of pairs, or the exception
Paths(g, u, v, stack) ==
    IF directed_edge_exists(g, u, v) THEN [paths |-> {<< <<u, v>> >>}, err |-> OK]
    ELSE IF u \notin DOMAIN g.edges THEN [paths |-> {}, err |-> "KeyError"]
    ELSE IF u \in stack THEN [paths |-> {}, err |-> RecursionError]
    ELSE LET sub == [w \in DOMAIN g.edges[u] |-> Paths(g, w, v, stack \cup {u})]
             bad == {w \in DOMAIN sub : sub[w].err # OK}
         IN  IF bad # {} THEN [paths |-> {}, err |-> sub[CHOOSE w \in bad : TRUE].err]
             ELSE [paths |-> UNION {{<< <<u, w>> >> \o p : p \in sub[w].paths} : w \in DOMAIN sub},
                   err |-> OK]

directed_paths(g, u, v) == Paths(g, u, v, {})

\* inducing_path_exists(u, v): the outcomes of the call
inducing_path_exists(g, u, v) ==
    LET found == directed_path_exists(g, u, v)
        all == directed_paths(g, u, v)
        broken == \E path \in all.paths : \E i \in 2..(Len(path) - 1) :
                      ~bidirected_edge_exists(g, path[i][1], path[i][2])
    IN  {a \in found : a.err # OK}
        \cup (IF Answer(FALSE) \in found THEN {Answer(FALSE)} ELSE {})
        \cup (IF Answer(TRUE) \notin found THEN {}
              ELSE IF all.err # OK THEN {Fail(all.err)}
              ELSE IF broken THEN {Answer(FALSE)}
              ELSE {Answer(FALSE)})

----------------------------------------------------------------------------
(* AbstractGraphModel._take_action.  A state st of the pass has the fields *)
(* edges, hist, err and actions (the local actions_taken).                 *)

Pass(e, h, x, a) == [edges |-> e, hist |-> h, err |-> x, actions |-> a]

\* the branch ran to "actions_taken.append(i)" unless a call raised
Applied(st, r, i) ==
    Pass(r.edges, r.hist, r.err, IF r.err = OK THEN Append(st.actions, i) ELSE st.actions)

\* add_edge_history(i.x, i.y, i); add_edge_history(i.y, i.x, i), after the graph
\* call r; an exception ends the branch
HistoryBoth(n, r, i) ==
    IF r.err # OK THEN r
    ELSE LET h1 == add_edge_history(Graph(n, r.edges, r.hist), i.x, i.y, i)
         IN  IF h1.err # OK THEN h1
             ELSE add_edge_history(Graph(n, h1.edges, h1.hist), i.y, i.x, i)

\* a directed action that writes the history of both ordered pairs
HistoryOneBothWays(n, r, i) == HistoryBoth(n, r, i)

\* add_edge_history(i.x, i.y, i), after the graph call r
HistoryOne(n, r, i) ==
    IF r.err # OK THEN r ELSE add_edge_history(Graph(n, r.edges, r.hist), i.x, i.y, i)

\* TakeRemoveUndirected with remove_directed_edge for remove_edge
TakeRemoveUndirectedOneWay(n, st, i) ==
    LET g == Graph(n, st.edges, st.hist)
    IN  IF ~undirected_edge_exists(g, i.x, i.y) THEN st
        ELSE Applied(st, HistoryBoth(n, remove_directed_edge(g, i.x, i.y), i), i)

\* TakeRemoveUndirected without the check of line 412
TakeRemoveUndirectedUnchecked(n, st, i) ==
    Applied(st, HistoryBoth(n, remove_edge(Graph(n, st.edges, st.hist), i.x, i.y), i), i)

\* lines 411-419
TakeRemoveUndirected(n, st, i) ==
    LET g == Graph(n, st.edges, st.hist)
    IN  IF ~undirected_edge_exists(g, i.x, i.y) THEN st
        ELSE Applied(st, HistoryBoth(n, remove_edge(g, i.x, i.y), i), i)

\* lines 420-428
TakeUpdate(n, st, i) ==
    LET g == Graph(n, st.edges, st.hist)
    IN  IF ~edge_exists(g, i.x, i.y) THEN st
        ELSE Applied(st, HistoryBoth(n, update_edge(g, i.x, i.y, i.data), i), i)

\* lines 429-436
TakeUpdateDirected(n, st, i) ==
    LET g == Graph(n, st.edges, st.hist)
    IN  IF ~directed_edge_exists(g, i.x, i.y) THEN st
        ELSE Applied(st, HistoryOne(n, update_directed_edge(g, i.x, i.y, i.data), i), i)

\* the REMOVE_EDGE_DIRECTED branch without the call of line 445
TakeRemoveDirectedKeep(n, st, i) ==
    LET g == Graph(n, st.edges, st.hist)
    IN  IF ~directed_edge_exists(g, i.x, i.y) THEN st
        ELSE Applied(st, HistoryOne(n, Ret(st.edges, st.hist, OK), i), i)

\* lines 439-446
TakeRemoveDirected(n, st, i) ==
    LET g == Graph(n, st.edges, st.hist)
    IN  IF ~directed_edge_exists(g, i.x, i.y) THEN st
        ELSE Applied(st, HistoryOne(n, remove_directed_edge(g, i.x, i.y), i), i)

\* the inner loop body with a DO_NOTHING branch that runs on to the append
TakeOneCountNothing(n, st, i) ==
    IF st.err # OK THEN st
    ELSE IF i.action = REMOVE_EDGE_UNDIRECTED THEN TakeRemoveUndirected(n, st, i)
    ELSE IF i.action = UPDATE_EDGE THEN TakeUpdate(n, st, i)
    ELSE IF i.action = UPDATE_EDGE_DIRECTED THEN TakeUpdateDirected(n, st, i)
    ELSE IF i.action = REMOVE_EDGE_DIRECTED THEN TakeRemoveDirected(n, st, i)
    ELSE Applied(st, Ret(st.edges, st.hist, OK), i)

\* one pass of the inner loop body (lines 406-449), for the TestResult i; a pass
\* that raised has left the loop
TakeOne(n, st, i) ==
    IF st.err # OK THEN st
    ELSE IF i.action = REMOVE_EDGE_UNDIRECTED THEN TakeRemoveUndirected(n, st, i)
    ELSE IF i.action = UPDATE_EDGE THEN TakeUpdate(n, st, i)
    ELSE IF i.action = UPDATE_EDGE_DIRECTED THEN TakeUpdateDirected(n, st, i)
    ELSE IF i.action = DO_NOTHING THEN st
    ELSE IF i.action = REMOVE_EDGE_DIRECTED THEN TakeRemoveDirected(n, st, i)
    ELSE Applied(st, Ret(st.edges, st.hist, OK), i)

RECURSIVE TakeAll(_, _, _)
\* the inner loop over the TestResults of the results, in order
TakeAll(n, st, items) ==
    IF items = <<>> THEN st ELSE TakeAll(n, TakeOne(n, st, Head(items)), Tail(items))

\* an apply pass that walks the outcomes from the last one to the first
_take_actionReversed(g, results) ==
    TakeAll(g.nodes, Pass(g.edges, g.hist, OK, <<>>),
            Flatten([k \in DOMAIN results |-> Items(results[Len(results) + 1 - k])]))

\* results: a list of outcomes; None is skipped, one TestResult is wrapped in a list
_take_action(g, results) ==
    TakeAll(g.nodes, Pass(g.edges, g.hist, OK, <<>>),
            Flatten([k \in DOMAIN results |-> Items(results[k])]))

----------------------------------------------------------------------------
(* Candidate generators *)

\* interfaces.AS_MANY_AS_FIELDS
AS_MANY_AS_FIELDS == 0

RECURSIVE CombinationsOrdered(_, _)
\* itertools.permutations(s, r): the r-length orderings of elements of s
CombinationsOrdered(s, r) ==
    IF r = 0 THEN << <<>> >>
    ELSE Flatten([k \in DOMAIN s |->
             LET sub == CombinationsOrdered(SubSeq(s, 1, k - 1) \o SubSeq(s, k + 1, Len(s)), r - 1)
             IN  [j \in DOMAIN sub |-> <<s[k]>> \o sub[j]]])

RECURSIVE Combinations(_, _)
\* itertools.combinations(s, r): the r-length subsequences of s, in lexicographic order
Combinations(s, r) ==
    IF r = 0 THEN << <<>> >>
    ELSE IF Len(s) < r THEN <<>>
    ELSE LET with == Combinations(Tail(s), r - 1)
         IN  [k \in DOMAIN with |-> <<Head(s)>> \o with[k]] \o Combinations(Tail(s), r)

RECURSIVE CombinationsRangeInclusive(_, _, _)
\* for r in range(lo, hi + 1): for i in itertools.combinations(s, r): yield i
CombinationsRangeInclusive(s, lo, hi) ==
    IF lo > hi THEN <<>> ELSE Combinations(s, lo) \o CombinationsRangeInclusive(s, lo + 1, hi)

RECURSIVE CombinationsRange(_, _, _)
\* for r in range(lo, hi): for i in itertools.combinations(s, r): yield i
CombinationsRange(s, lo, hi) ==
    IF lo >= hi THEN <<>> ELSE Combinations(s, lo) \o CombinationsRange(s, lo + 1, hi)

\* AllCombinationsGenerator.generate with range(start, comparison_settings.max)
AllCombinationsGeneratorExclusive(g, cs) ==
    LET n == Len(g.nodes)
        stop0 == IF cs.max = AS_MANY_AS_FIELDS THEN n + 1 ELSE cs.max
        stop == IF stop0 > n + 1 THEN n + 1 ELSE stop0
    IN  IF cs.min > n THEN <<>>
        ELSE IF stop < cs.min THEN <<>>
        ELSE CombinationsRange(g.nodes, cs.min, stop)

\* AllCombinationsGenerator.generate without the case max = AS_MANY_AS_FIELDS
AllCombinationsGeneratorNoSentinel(g, cs) ==
    LET n == Len(g.nodes)
        stop0 == cs.max + 1
        stop == IF stop0 > n + 1 THEN n + 1 ELSE stop0
    IN  IF cs.min > n THEN <<>>
        ELSE IF stop < cs.min THEN <<>>
        ELSE CombinationsRange(g.nodes, cs.min, stop)

\* AllCombinationsGenerator.generate, as the list of what it yields
AllCombinationsGenerator(g, cs) ==
    LET n == Len(g.nodes)
        stop0 == IF cs.max = AS_MANY_AS_FIELDS THEN n + 1 ELSE cs.max + 1
        stop == IF stop0 > n + 1 THEN n + 1 ELSE stop0
    IN  IF cs.min > n THEN <<>>
        ELSE IF stop < cs.min THEN <<>>
        ELSE CombinationsRange(g.nodes, cs.min, stop)

ValueError == "ValueError"

\* the keys of self.edges[node], in the order of the nodes
NeighboursOf(g, node) ==
    SelectSeq(g.nodes, LAMBDA w : node \in DOMAIN g.edges /\ w \in DOMAIN g.edges[node])

\* one yield of the size-pass i: a tuple, or (chunk) a list of tuples
Emit(i, chunk, tuples) == [i |-> i, chunk |-> chunk, tuples |-> tuples]

\* PairsWithNeighboursGenerator.generate, lines 96-125: the yields for one pair
PairYield(g, i, node, neighbour, chunked) ==
    IF i = 2 THEN <<Emit(i, FALSE, << <<node, neighbour>> >>)>>
    ELSE LET other_neighbours == SelectSeq(NeighboursOf(g, node), LAMBDA w : w # neighbour)
         IN  IF neighbour \notin Range(NeighboursOf(g, node)) THEN <<>>
             ELSE IF Len(other_neighbours) + 2 < i THEN <<>>
             ELSE LET combinations == Combinations(other_neighbours, i)
                      tuples == [k \in DOMAIN combinations |->
                                    <<node, neighbour>> \o combinations[k]]
                  IN  IF chunked THEN <<Emit(i, TRUE, tuples)>>
                      ELSE [k \in DOMAIN tuples |-> Emit(i, FALSE, <<tuples[k]>>)]

\* the pairs of local_edges with each undirected edge taken once
LocalPairsOnce(g) ==
    LET keys == SelectSeq(g.nodes, LAMBDA u : u \in DOMAIN g.edges)
    IN  Flatten([a \in DOMAIN keys |->
                    [b \in DOMAIN SelectSeq(NeighboursOf(g, keys[a]),
                                            LAMBDA w : <<w, keys[a]>> \notin
                                                {<<keys[c], keys[a]>> : c \in 1..(a - 1)}) |->
                        <<keys[a], SelectSeq(NeighboursOf(g, keys[a]),
                                             LAMBDA w : <<w, keys[a]>> \notin
                                                 {<<keys[c], keys[a]>> : c \in 1..(a - 1)})[b]>>]])

\* lines 92-95: the pairs (node, neighbour) of local_edges, in order
LocalPairs(g) ==
    LET keys == SelectSeq(g.nodes, LAMBDA u : u \in DOMAIN g.edges)
    IN  Flatten([a \in DOMAIN keys |->
                    [b \in DOMAIN NeighboursOf(g, keys[a]) |->
                        <<keys[a], NeighboursOf(g, keys[a])[b]>>]])

\* PairsWithNeighboursGenerator.generate on a graph that does not change while
\* the generator runs, as the list of what it yields; the shuffle of the
\* combinations changes their order only and is left out
PairsWithNeighboursGenerator(g, cs, chunked) ==
    LET n == Len(g.nodes)
        stop0 == IF cs.max = AS_MANY_AS_FIELDS THEN n + 1 ELSE cs.max + 1
        stop == IF stop0 > n + 1 THEN n + 1 ELSE stop0
        pairs == LocalPairs(g)
    IN  IF cs.min > n THEN [yields |-> <<>>, err |-> OK]
        ELSE IF stop < cs.min THEN [yields |-> <<>>, err |-> OK]
        ELSE IF cs.min < 2 THEN [yields |-> <<>>, err |-> ValueError]
        ELSE [yields |-> Flatten([k \in 1..(stop - cs.min) |->
                            Flatten([q \in DOMAIN pairs |->
                                PairYield(g, cs.min + k - 1, pairs[q][1], pairs[q][2],
                                          chunked)])]),
              err |-> OK]

----------------------------------------------------------------------------
(* Pipeline steps and what a test may return *)

TestStep(name, parallel, lo, hi) ==
    [kind |-> "Test", name |-> name, PARALLEL |-> parallel, cs |-> [min |-> lo, max |-> hi]]
LoopStep(children, exit) == [kind |-> "Loop", children |-> children, exit |-> exit]
TogetherStep(children) == [kind |-> "ApplyActionsTogether", children |-> children]

\* sequential steps of two and of two to three comparison elements, a parallel step
SeqStep == TestStep("SeqTest", FALSE, 2, 2)
SeqRangeStep == TestStep("SeqRangeTest", FALSE, 2, 3)
ParStep == TestStep("ParTest", TRUE, 2, 2)
NoStep == TestStep("None", FALSE, 0, 0)
PlaceholderStep == TestStep("PlaceholderTest", FALSE, 2, 2)

\* a sequential step whose test emits REMOVE_EDGE_UNDIRECTED and REMOVE_EDGE_DIRECTED only
RemoveStep == TestStep("RemoveTest", FALSE, 2, 2)

\* the child step lists and the exit conditions of the Logic steps of the model
ChildLists == {<<>>, <<SeqStep>>, <<SeqStep, SeqStep>>, <<ParStep>>}
ExitConditions == {"ExitOnNoActions", "Any"}

\* Loop.__init__ and ApplyActionsTogether.__init__ with a list of steps: the
\* object built, or the exception; neither looks at the length of the list
\* but to ask whether its first element is a dict
Loop__init__(pipeline_steps_, exit_condition) ==
    [err |-> OK, step |-> LoopStep(pipeline_steps_, exit_condition)]
ApplyActionsTogether__init__(pipeline_steps_) ==
    [err |-> OK, step |-> TogetherStep(pipeline_steps_)]

\* the Logic steps that can be constructed
LogicSteps ==
    {c.step : c \in {c \in {Loop__init__(q[1], q[2]) : q \in ChildLists \X ExitConditions}
                              \cup {ApplyActionsTogether__init__(l) : l \in ChildLists} :
                        c.err = OK}}

Actionable == TestResultAction \ {DO_NOTHING}

\* the data a TestResult with this action carries
DataOf(action) == IF action \in {UPDATE_EDGE, UPDATE_EDGE_DIRECTED} THEN Data ELSE {EmptyPayload}

\* the index pairs i < j of a candidate of m nodes, in order
PairsOf(m) ==
    SelectSeq([k \in 1..(m * m) |-> <<((k - 1) \div m) + 1, ((k - 1) % m) + 1>>],
              LAMBDA q : q[1] < q[2])

\* What test(cand, graph) may return when the tests have built id TestResults so
\* far: None, a DO_NOTHING result, one result with an action on two nodes of the
\* candidate, two directed removals from a third node (as UnshieldedTriplesTest
\* returns), or undirected removals for several pairs of the candidate (as
\* ExtendedPartialCorrelationTest returns).
Outcomes(n, cand, id, max) ==
    {RetNone, RetOne(TestResult(0, cand[1], cand[2], DO_NOTHING, EmptyPayload))}
    \cup (IF id + 1 > max THEN {}
          ELSE {RetOne(TestResult(id + 1, cand[q[1]], cand[q[2]], q[3], q[4])) :
                   q \in {q \in (DOMAIN cand) \X (DOMAIN cand) \X Actionable \X Payloads :
                             q[1] # q[2] /\ q[4] \in DataOf(q[3])}})
    \cup (IF id + 2 > max THEN {}
          ELSE {RetList(<<TestResult(id + 1, z, cand[1], REMOVE_EDGE_DIRECTED, EmptyPayload),
                          TestResult(id + 2, z, cand[2], REMOVE_EDGE_DIRECTED, EmptyPayload)>>) :
                   z \in Range(n) \ Range(cand)})
    \cup {RetList([k \in DOMAIN ps |->
                      TestResult(id + k, cand[ps[k][1]], cand[ps[k][2]],
                                 REMOVE_EDGE_UNDIRECTED, EmptyPayload)]) :
             ps \in {SelectSeq(PairsOf(Len(cand)), LAMBDA q : q \in S) :
                        S \in {S \in SUBSET Range(PairsOf(Len(cand))) :
                                  Cardinality(S) >= 2 /\ id + Cardinality(S) <= max}}}

\* PlaceholderTest.test: DO_NOTHING with x = None and y = None
PlaceholderTest == RetOne(TestResult(0, NoneVal, NoneVal, DO_NOTHING, EmptyPayload))

\* the outcomes of a test that emits removals only
RemoveOutcomes(n, cand, id, max) ==
    {o \in Outcomes(n, cand, id, max) :
        \A k \in DOMAIN Items(o) :
            Items(o)[k].action \in {DO_NOTHING, REMOVE_EDGE_UNDIRECTED, REMOVE_EDGE_DIRECTED}}

\* what test(cand, graph) of the step s may return
TestOutcomes(s, n, cand, id, max) ==
    IF s.name = "PlaceholderTest" THEN {PlaceholderTest}
    ELSE IF s.name = "RemoveTest" THEN RemoveOutcomes(n, cand, id, max)
    ELSE Outcomes(n, cand, id, max)

\* the TestResult objects an outcome adds
Built(o) == Len(SelectSeq(Items(o), LAMBDA r : r.id # 0))

----------------------------------------------------------------------------
(* The engine: AbstractGraphModel and the Logic steps *)

G == Graph(nodes, edges, edge_history)

RECURSIVE AddEdges(_, _)
\* add_edge(u, v, {}) for a list of pairs, in order
AddEdges(g, pairs) ==
    IF pairs = <<>> THEN g
    ELSE LET r == add_edge(g, Head(pairs)[1], Head(pairs)[2], EmptyPayload)
         IN  AddEdges(Graph(g.nodes, r.edges, r.hist), Tail(pairs))

\* AbstractGraphModel.create_all_possible_edges
create_all_possible_edges(g) ==
    LET n == Len(g.nodes)
        pair(k) == <<g.nodes[((k - 1) \div n) + 1], g.nodes[((k - 1) % n) + 1]>>
        all == [k \in 1..(n * n) |-> pair(k)]
    IN  AddEdges(g, SelectSeq(all, LAMBDA q : q[1] # q[2]))

\* AbstractGraphModel.create_graph_from_data, for rows with these keys
create_graph_from_data(keys) == Graph(keys, EmptyDict, EmptyDict)

\* a call of a client: the method, its arguments u, v and value (for an apply pass
\* the x, y and data of the result, and its action), whether the entries u->v and
\* v->u were present before the call, and whether the call before was the same
\* call and met the entry u->v
Call(name, u, v, value, action, uv, vu, twice) ==
    [name |-> name, u |-> u, v |-> v, value |-> value, action |-> action,
     uv |-> uv, vu |-> vu, twice |-> twice]

\* no client call yet
NoOp == Call("None", "None", "None", "None", "None", FALSE, FALSE, FALSE)

NoLogic ==
    [kind |-> "None", children |-> <<>>, exit |-> "None", idx |-> 0, n |-> 0,
     none |-> TRUE, steps |-> <<>>, actions |-> <<>>]

\* the locals of Loop.execute (n = 0, steps = None) and of ApplyActionsTogether.execute
Locals(l) ==
    [kind |-> l.kind, children |-> l.children,
     exit |-> IF l.kind = "Loop" THEN l.exit ELSE "None",
     idx |-> 0, n |-> 0, none |-> TRUE, steps |-> <<>>, actions |-> <<>>]

\* ExitOnNoActions: true iff a round has run and took no action
ExitOnNoActions(none, actions, iteration) == ~none /\ actions = <<>>

\* what exit_condition(actions_taken = steps, iteration = n) may return
ExitValues(l) ==
    IF l.exit = "ExitOnNoActions" THEN {ExitOnNoActions(l.none, l.steps, l.n)}
    ELSE IF l.n < MaxRounds THEN BOOLEAN ELSE {TRUE}

\* what the test calls of a step decided to do: the actions and their nodes
Decisions(calls_) ==
    UNION {{[action |-> r.action, x |-> r.x, y |-> r.y] :
                r \in {r \in Range(Items(c.o)) : r.action # DO_NOTHING}} :
              c \in Range(calls_)}

Snap == [edges |-> edges, hist |-> edge_history, ah |-> Len(action_history)]
NoCalls == [exit |-> <<>>, child |-> <<>>]

\* the first lines of execute_pipeline_step(test_fn), up to the first test call
BeginStep(s) ==
    /\ step' = s
    /\ cands' = AllCombinationsGenerator(G, s.cs)
    /\ iterator' = <<>>
    /\ inflight' = {}
    /\ actions_taken' = <<>>
    /\ seen' = <<>>
    /\ start' = [start EXCEPT !.step = Snap]
    /\ pc' = "test"

\* Loop.execute with "steps = []" left out of the loop body
BeginRoundKeep(l) == [l EXCEPT !.none = FALSE, !.idx = 1]

\* Loop.execute, lines 45-46: a round begins, steps = []
BeginRound(l) == [l EXCEPT !.none = FALSE, !.steps = <<>>, !.idx = 1]

\* Loop.execute with "steps = result" for "steps.extend(result)"
AfterChildLoopOverwrite(l, acts) ==
    IF l.idx < Len(l.children)
    THEN [l EXCEPT !.steps = acts, !.idx = @ + 1]
    ELSE [l EXCEPT !.steps = acts, !.idx = 0, !.n = @ + 1]

\* Loop.execute, lines 45-49: after a child, to the next child or n += 1
AfterChildLoop(l, acts) ==
    IF l.idx < Len(l.children)
    THEN [l EXCEPT !.steps = @ \o acts, !.idx = @ + 1]
    ELSE [l EXCEPT !.steps = @ \o acts, !.idx = 0, !.n = @ + 1]

\* ApplyActionsTogether.execute, lines 90-92
AfterChildTogether(l, acts) == [l EXCEPT !.actions = @ \o acts, !.idx = @ + 1]

\* execute_pipeline_steps, lines 381 and 387: a Test step
RunStep ==
    /\ pc = "pipeline" /\ pos <= Len(pipeline_steps)
    /\ pipeline_steps[pos].kind = "Test"
    /\ BeginStep(pipeline_steps[pos])
    /\ UNCHANGED <<nodes, edges, edge_history, action_history, err, pipeline_steps, cap, op,
                   pos, logic, next_id, calls>>

\* execute_pipeline_steps, lines 383-384, and Loop.execute, lines 37-38
RunLoop ==
    /\ pc = "pipeline" /\ pos <= Len(pipeline_steps)
    /\ pipeline_steps[pos].kind = "Loop"
    /\ logic' = Locals(pipeline_steps[pos])
    /\ pc' = "loop"
    /\ start' = [start EXCEPT !.logic = Snap]
    /\ calls' = NoCalls
    /\ UNCHANGED <<nodes, edges, edge_history, action_history, err, pipeline_steps, cap, op,
                   pos, step, cands, iterator, inflight, actions_taken, next_id, seen>>

\* Loop.execute, line 39: the while condition
LoopCheck ==
    /\ pc = "loop"
    /\ \E b \in ExitValues(logic) :
        /\ calls' = [calls EXCEPT !.exit =
                        Append(@, [none |-> logic.none, actions_taken |-> logic.steps,
                                   iteration |-> logic.n, ret |-> b])]
        /\ IF b THEN logic' = logic /\ pc' = "loop_done"
           ELSE IF logic.children = <<>>
           THEN logic' = [BeginRound(logic) EXCEPT !.idx = 0, !.n = @ + 1] /\ pc' = "loop"
           ELSE logic' = BeginRound(logic) /\ pc' = "child"
    /\ UNCHANGED <<nodes, edges, edge_history, action_history, err, pipeline_steps, cap, op,
                   pos, step, cands, iterator, inflight, actions_taken, next_id, seen,
                   start>>

\* execute_pipeline_steps, lines 383-384, and ApplyActionsTogether.execute, line 89
RunTogether ==
    /\ pc = "pipeline" /\ pos <= Len(pipeline_steps)
    /\ pipeline_steps[pos].kind = "ApplyActionsTogether"
    /\ logic' = [Locals(pipeline_steps[pos]) EXCEPT !.idx = 1]
    /\ pc' = IF pipeline_steps[pos].children = <<>> THEN "together" ELSE "child"
    /\ start' = [start EXCEPT !.logic = Snap]
    /\ calls' = NoCalls
    /\ UNCHANGED <<nodes, edges, edge_history, action_history, err, pipeline_steps, cap, op,
                   pos, step, cands, iterator, inflight, actions_taken, next_id, seen>>

\* a Logic step calls graph_model_instance_.execute_pipeline_step(pipeline_step)
ChildStart ==
    /\ pc = "child"
    /\ logic.children[logic.idx].kind = "Test"
    /\ BeginStep(logic.children[logic.idx])
    /\ UNCHANGED <<nodes, edges, edge_history, action_history, err, pipeline_steps, cap, op,
                   pos, logic, next_id, calls>>

AttributeError == "AttributeError"

\* the static metadata of a step (PARALLEL, GENERATOR, the chunk size): a Test
\* step has it, a Logic step has execute(graph, engine) and its child steps
HasTestMetadata(s) == s.kind = "Test"

\* a Logic step calls graph_model_instance_.execute_pipeline_step(pipeline_step)
\* for a child that is a Logic step: line 466 reads test_fn.PARALLEL, and no line
\* of execute_pipeline_step calls test_fn.execute
ChildLogic ==
    /\ pc = "child"
    /\ ~HasTestMetadata(logic.children[logic.idx])
    /\ err' = AttributeError
    /\ pc' = "raised"
    /\ UNCHANGED <<nodes, edges, edge_history, action_history, pipeline_steps, cap, op, pos,
                   step, cands, iterator, inflight, actions_taken, logic, next_id, seen,
                   start, calls>>

\* sequential mode, lines 478-484: one unpack_run(i) of the list comprehension
SeqTest ==
    /\ pc = "test" /\ ~step.PARALLEL /\ cands # <<>>
    /\ \E o \in TestOutcomes(step, nodes, Head(cands), next_id, cap) :
        /\ iterator' = Append(iterator, o)
        /\ seen' = Append(seen, [edges |-> edges, hist |-> edge_history, o |-> o])
        /\ next_id' = next_id + Built(o)
    /\ cands' = Tail(cands)
    /\ UNCHANGED <<nodes, edges, edge_history, action_history, err, pipeline_steps, cap, op,
                   pos, pc, step, inflight, actions_taken, logic, start, calls>>

\* sequential mode that records every result the tests returned
SeqApplyAll ==
    /\ pc = "test" /\ ~step.PARALLEL /\ cands = <<>>
    /\ LET r == _take_action(G, iterator)
           all == Flatten([k \in DOMAIN iterator |-> Items(iterator[k])])
       IN  /\ edges' = r.edges
           /\ edge_history' = r.hist
           /\ err' = r.err
           /\ actions_taken' = all
           /\ pc' = "applied"
           /\ action_history' = Append(action_history, [step |-> step.name, actions |-> all])
    /\ UNCHANGED <<nodes, pipeline_steps, cap, op, pos, step, cands, iterator, inflight,
                   logic, next_id, seen, start, calls>>

\* sequential mode, lines 485-488: apply and record
SeqApply ==
    /\ pc = "test" /\ ~step.PARALLEL /\ cands = <<>>
    /\ LET r == _take_action(G, iterator)
       IN  /\ edges' = r.edges
           /\ edge_history' = r.hist
           /\ err' = r.err
           /\ actions_taken' = r.actions
           /\ IF r.err # OK
              THEN pc' = "raised" /\ action_history' = action_history
              ELSE /\ pc' = "applied"
                   /\ action_history' =
                          Append(action_history, [step |-> step.name, actions |-> r.actions])
    /\ UNCHANGED <<nodes, pipeline_steps, cap, op, pos, step, cands, iterator, inflight, logic,
                   next_id, seen, start, calls>>

\* the list the loop body of lines 474-475 hands to _take_action
ParResult(o) == IF o.tag = "list" THEN [k \in DOMAIN o.rs |-> RetOne(o.rs[k])] ELSE <<o>>

\* parallel mode, lines 467-473: the pool takes the next task from the generator
\* and pickles it with the graph as it is now (chunksize 1)
ParDispatch ==
    /\ pc = "test" /\ step.PARALLEL /\ cands # <<>>
    /\ \E o \in TestOutcomes(step, nodes, Head(cands), next_id, cap) :
        /\ inflight' = inflight \cup {[k |-> Len(seen) + 1, o |-> o]}
        /\ seen' = Append(seen, [edges |-> edges, hist |-> edge_history, o |-> o])
        /\ next_id' = next_id + Built(o)
    /\ cands' = Tail(cands)
    /\ UNCHANGED <<nodes, edges, edge_history, action_history, err, pipeline_steps, cap, op,
                   pos, pc, step, iterator, actions_taken, logic, start, calls>>

\* parallel mode, lines 474-476: the result of some finished task arrives and is applied
ParApply ==
    /\ pc = "test" /\ step.PARALLEL
    /\ \E t \in inflight :
        LET r == _take_action(G, ParResult(t.o))
        IN  /\ edges' = r.edges
            /\ edge_history' = r.hist
            /\ err' = r.err
            /\ pc' = IF r.err # OK THEN "raised" ELSE pc
            /\ actions_taken' = actions_taken \o r.actions
            /\ inflight' = inflight \ {t}
    /\ UNCHANGED <<nodes, action_history, pipeline_steps, cap, op, pos, step, cands, iterator,
                   logic, next_id, seen, start, calls>>

\* parallel mode, lines 486-488: the pool's iterator is exhausted; record
ParFinish ==
    /\ pc = "test" /\ step.PARALLEL /\ cands = <<>> /\ inflight = {}
    /\ action_history' =
           Append(action_history, [step |-> step.name, actions |-> actions_taken])
    /\ pc' = "applied"
    /\ UNCHANGED <<nodes, edges, edge_history, err, pipeline_steps, cap, op, pos, step, cands,
                   iterator, inflight, actions_taken, logic, next_id, seen, start, calls>>

\* line 490: execute_pipeline_step returns actions_taken to its caller, which is
\* execute_pipeline_steps (388-390), Loop.execute (47-49) or
\* ApplyActionsTogether.execute (91-92)
ReturnStep ==
    /\ pc = "applied"
    /\ IF logic.kind = "Loop" THEN
           /\ logic' = AfterChildLoop(logic, actions_taken)
           /\ pc' = IF logic.idx < Len(logic.children) THEN "child" ELSE "loop"
           /\ pos' = pos
       ELSE IF logic.kind = "ApplyActionsTogether" THEN
           /\ logic' = AfterChildTogether(logic, actions_taken)
           /\ pc' = IF logic.idx < Len(logic.children) THEN "child" ELSE "together"
           /\ pos' = pos
       ELSE /\ logic' = logic
            /\ pc' = "pipeline"
            /\ pos' = pos + 1
    /\ calls' = IF logic.kind = "None" THEN calls
                ELSE [calls EXCEPT !.child =
                         Append(@, [round |-> logic.n, idx |-> logic.idx,
                                    saw |-> {[edges |-> c.edges, hist |-> c.hist] : c \in Range(seen)},
                                    decided |-> Decisions(seen),
                                    ret |-> actions_taken])]
    /\ step' = NoStep
    /\ iterator' = <<>>
    /\ seen' = <<>>
    /\ UNCHANGED <<nodes, edges, edge_history, action_history, err, pipeline_steps, cap, op,
                   cands, inflight, actions_taken, next_id, start>>

\* ApplyActionsTogether.execute, line 94
TogetherApply ==
    /\ pc = "together"
    /\ LET r == _take_action(G, [k \in DOMAIN logic.actions |-> RetOne(logic.actions[k])])
       IN  /\ edges' = r.edges
           /\ edge_history' = r.hist
           /\ err' = r.err
           /\ pc' = IF r.err # OK THEN "raised" ELSE "together_done"
    /\ UNCHANGED <<nodes, action_history, pipeline_steps, cap, op, pos, step, cands, iterator,
                   inflight, actions_taken, logic, next_id, seen, start, calls>>

\* Logic.execute returns to execute_pipeline_steps, line 385
ReturnLogic ==
    /\ pc \in {"loop_done", "together_done"}
    /\ pc' = "pipeline"
    /\ pos' = pos + 1
    /\ logic' = NoLogic
    /\ calls' = NoCalls
    /\ actions_taken' = <<>>
    /\ UNCHANGED <<nodes, edges, edge_history, action_history, err, pipeline_steps, cap, op,
                   step, cands, iterator, inflight, next_id, seen, start>>

\* the graph after create_graph_from_data on rows with these keys and
\* create_all_possible_edges
FullGraph(keys) == create_all_possible_edges(create_graph_from_data(keys))

\* a graph model with the graph g and one of these pipelines
InitModel(g, pipelines, max, at) ==
    /\ nodes = g.nodes
    /\ edges = g.edges
    /\ edge_history = g.hist
    /\ action_history = <<>>
    /\ err = OK
    /\ pipeline_steps \in pipelines
    /\ pos = 1
    /\ pc = at
    /\ step = NoStep
    /\ cands = <<>>
    /\ iterator = <<>>
    /\ inflight = {}
    /\ actions_taken = <<>>
    /\ logic = NoLogic
    /\ next_id = 0
    /\ cap = max
    /\ op = NoOp
    /\ seen = <<>>
    /\ start = [step |-> [edges |-> g.edges, hist |-> g.hist, ah |-> 0],
                logic |-> [edges |-> g.edges, hist |-> g.hist, ah |-> 0]]
    /\ calls = NoCalls

\* pipelines of sequential Test steps over three nodes
Init ==
    InitModel(FullGraph(<<"A", "B", "C">>),
              {<<SeqRangeStep>>, <<SeqStep, SeqStep>>, <<SeqStep, PlaceholderStep>>},
              MaxResults, "pipeline")

Next ==
    \/ RunStep
    \/ SeqTest
    \/ SeqApply
    \/ ReturnStep

Spec == Init /\ [][Next]_vars

\* pipelines of sequential and parallel Test steps over three nodes
InitPar ==
    InitModel(FullGraph(<<"A", "B", "C">>),
              {<<SeqStep>>, <<ParStep>>, <<ParStep, SeqStep>>, <<SeqStep, ParStep>>},
              MaxLogicResults, "pipeline")

NextPar ==
    \/ RunStep
    \/ SeqTest
    \/ SeqApply
    \/ ParDispatch
    \/ ParApply
    \/ ParFinish
    \/ ReturnStep

SpecPar == InitPar /\ [][NextPar]_vars

\* pipelines of one Logic step over two nodes
InitLogic ==
    InitModel(FullGraph(<<"A", "B">>), {<<l>> : l \in LogicSteps}, MaxLogicResults,
              "pipeline")

NextLogic ==
    \/ RunLoop
    \/ LoopCheck
    \/ RunTogether
    \/ ChildStart
    \/ SeqTest
    \/ SeqApply
    \/ ParDispatch
    \/ ParApply
    \/ ParFinish
    \/ ReturnStep
    \/ TogetherApply
    \/ ReturnLogic

SpecLogic == InitLogic /\ [][NextLogic]_vars

\* TestResult objects the tests of a remove-only Loop build: more than its
\* rounds on two nodes can use
MaxFixpointResults == 6

\* a Loop with ExitOnNoActions over remove-only steps, on the graph over A, B
\* with the edge A - B, or with the edge oriented A -> B
InitFixpoint ==
    \E g \in {FullGraph(<<"A", "B">>),
              LET f == FullGraph(<<"A", "B">>)
              IN  Graph(f.nodes, remove_directed_edge(f, "B", "A").edges, f.hist)} :
        InitModel(g, {<<Loop__init__(l, "ExitOnNoActions").step>> :
                         l \in {<<RemoveStep>>, <<RemoveStep, RemoveStep>>}},
                  MaxFixpointResults, "pipeline")

NextFixpoint ==
    \/ RunLoop
    \/ LoopCheck
    \/ ChildStart
    \/ SeqTest
    \/ SeqApply
    \/ ReturnStep
    \/ ReturnLogic

\* the coordinator runs the steps one after the other and none of them blocks
SpecFixpoint == InitFixpoint /\ [][NextFixpoint]_vars /\ WF_vars(NextFixpoint)

\* child step lists that hold a Logic step
NestedLists ==
    {<<Loop__init__(<<SeqStep>>, "ExitOnNoActions").step>>,
     <<ApplyActionsTogether__init__(<<SeqStep>>).step>>,
     <<SeqStep, Loop__init__(<<SeqStep>>, "ExitOnNoActions").step>>,
     <<SeqStep, ApplyActionsTogether__init__(<<SeqStep>>).step>>}

\* the Logic steps with such a list, and two without a nested Logic step
NestedSteps ==
    {Loop__init__(l, e).step : l \in NestedLists \cup {<<SeqStep>>}, e \in ExitConditions}
    \cup {ApplyActionsTogether__init__(l).step : l \in NestedLists \cup {<<SeqStep>>}}

\* pipelines of one Logic step, with and without a nested Logic step, over two nodes
InitNested ==
    InitModel(FullGraph(<<"A", "B">>), {<<l>> : l \in NestedSteps}, MaxLogicResults,
              "pipeline")

NextNested ==
    \/ RunLoop
    \/ LoopCheck
    \/ RunTogether
    \/ ChildStart
    \/ ChildLogic
    \/ SeqTest
    \/ SeqApply
    \/ ReturnStep
    \/ TogetherApply
    \/ ReturnLogic

SpecNested == InitNested /\ [][NextNested]_vars

----------------------------------------------------------------------------
(* A client of the graph store: the graph has the nodes A and B, and the   *)
(* client calls the methods of UndirectedGraph, also with C, which is no   *)
(* node, and runs apply passes.                                            *)

\* TestResult objects the client of the graph store builds
MaxStoreResults == 1

\* the client called the method `name` with u, v and value (action: the action of
\* the result of an apply pass); the call ended as r and built `built` TestResult
\* objects
StoreCall(name, u, v, value, action, r, built) ==
    /\ pc = "client"
    /\ edges' = r.edges
    /\ edge_history' = r.hist
    /\ err' = r.err
    /\ op' = Call(name, u, v, value, action,
                  directed_edge_exists(G, u, v), directed_edge_exists(G, v, u),
                  op.name = name /\ op.u = u /\ op.v = v /\ op.uv)
    /\ next_id' = next_id + built
    /\ UNCHANGED <<nodes, action_history, pipeline_steps, cap, pos, pc, step, cands,
                   iterator, inflight, actions_taken, logic, seen, start, calls>>

\* the arguments u, v of the calls: A and B in both orders, and C, which is no
\* node, as v and as u
StorePairs == {<<"A", "B">>, <<"B", "A">>, <<"A", "C">>, <<"C", "B">>}

AddEdge ==
    \E q \in StorePairs, value \in Payloads :
        StoreCall("add_edge", q[1], q[2], value, NoneVal, add_edge(G, q[1], q[2], value), 0)

RemoveEdge ==
    \E q \in StorePairs :
        StoreCall("remove_edge", q[1], q[2], NoneVal, NoneVal, remove_edge(G, q[1], q[2]), 0)

RemoveDirectedEdge ==
    \E q \in StorePairs :
        StoreCall("remove_directed_edge", q[1], q[2], NoneVal, NoneVal,
                  remove_directed_edge(G, q[1], q[2]), 0)

UpdateEdge ==
    \E q \in StorePairs, value \in Data :
        StoreCall("update_edge", q[1], q[2], value, NoneVal,
                  update_edge(G, q[1], q[2], value), 0)

UpdateDirectedEdge ==
    \E q \in StorePairs, value \in Data :
        StoreCall("update_directed_edge", q[1], q[2], value, NoneVal,
                  update_directed_edge(G, q[1], q[2], value), 0)

\* add_edge_history(u, v, action) with a TestResult of the client
AddEdgeHistory ==
    \E q \in StorePairs :
        /\ next_id < cap
        /\ StoreCall("add_edge_history", q[1], q[2], NoneVal, DO_NOTHING,
                     add_edge_history(G, q[1], q[2],
                         TestResult(next_id + 1, q[1], q[2], DO_NOTHING, EmptyPayload)), 1)

\* _take_action([result]) with a result on two nodes of the graph
ApplyPass ==
    \E x \in Range(nodes), y \in Range(nodes), a \in Actionable :
        \E d \in DataOf(a) :
            /\ x # y /\ next_id < cap
            /\ StoreCall("_take_action", x, y, d, a,
                         _take_action(G, <<RetOne(TestResult(next_id + 1, x, y, a, d))>>), 1)

\* the graph after create_graph_from_data on rows with the keys A and B
InitStore == InitModel(create_graph_from_data(<<"A", "B">>), {<<>>}, MaxStoreResults, "client")

NextStore ==
    \/ AddEdge
    \/ RemoveEdge
    \/ RemoveDirectedEdge
    \/ UpdateEdge
    \/ UpdateDirectedEdge
    \/ AddEdgeHistory
    \/ ApplyPass

SpecStore == InitStore /\ [][NextStore]_vars

----------------------------------------------------------------------------
(* A client that builds the graph itself: it starts from UndirectedGraph() *)
(* and adds the nodes A and B with add_node, in any order and between any  *)
(* other calls.  The values of a node play no part in the model, so        *)
(* add_node for a name that is a node already leaves the nodes as they are. *)

add_node(g, name) == IF name \in Range(g.nodes) THEN g.nodes ELSE Append(g.nodes, name)

AddNode ==
    \E name \in {"A", "B"} :
        /\ pc = "client"
        /\ nodes' = add_node(G, name)
        /\ err' = OK
        /\ op' = Call("add_node", name, NoneVal, NoneVal, NoneVal, FALSE, FALSE, FALSE)
        /\ UNCHANGED <<edges, edge_history, action_history, pipeline_steps, cap, pos, pc,
                       step, cands, iterator, inflight, actions_taken, logic, next_id,
                       seen, start, calls>>

\* the graph of UndirectedGraph()
InitNodes == InitModel(Graph(<<>>, EmptyDict, EmptyDict), {<<>>}, MaxStoreResults, "client")

NextNodes ==
    \/ AddNode
    \/ AddEdge
    \/ RemoveEdge
    \/ RemoveDirectedEdge
    \/ UpdateEdge
    \/ UpdateDirectedEdge
    \/ AddEdgeHistory
    \/ ApplyPass

SpecNodes == InitNodes /\ [][NextNodes]_vars

----------------------------------------------------------------------------
(* The independence tests of independence_tests.py, called on the graph    *)
(* over the nodes A, B, C.  A payload with a 'correlation' entry is the    *)
(* payload d, a payload without one is {}.  What a test decides from the   *)
(* numbers (the comparison of t with critical_t, a zero denominator) is    *)
(* left open.                                                              *)

\* TestResult objects with an action other than DO_NOTHING that the test calls build
MaxTestResults == 3

KeyError == "KeyError"
Correlation == "d"

\* a run of test(cand, graph): the edges of the graph after it, what it returned
\* and the exception it raised
TestRun(e, o, x) == [edges |-> e, o |-> o, err |-> x]

\* graph.edge_value(u, v) raises KeyError: self.edges[u][v] has no such key
NoEntry(g, u, v) == u \notin DOMAIN g.edges \/ v \notin DOMAIN g.edges[u]

\* graph.edge_value(u, v)["correlation"] raises KeyError
NoCorrelation(g, u, v) == NoEntry(g, u, v) \/ edge_value(g, u, v) \notin Data

\* edge_value["correlation"] = ... on the dict that self.edges[u][v] refers to:
\* add_edge and update_edge store one dict under u->v and v->u, so the entry
\* v->u, where present, is that dict as well
SetCorrelation(g, u, v) ==
    LET e1 == DictSet(g.edges, u, DictSet(g.edges[u], v, Correlation))
    IN  IF NoEntry(g, v, u) THEN e1 ELSE DictSet(e1, v, DictSet(e1[v], u, Correlation))

\* CalculateCorrelations.test
CalculateCorrelations(g, cand, id, max) ==
    IF NoEntry(g, cand[1], cand[2]) THEN {TestRun(g.edges, RetNone, KeyError)}
    ELSE {TestRun(SetCorrelation(g, cand[1], cand[2]),
                  RetOne(TestResult(id + 1, cand[1], cand[2], UPDATE_EDGE, Correlation)), OK)}

\* CorrelationCoefficientTest.test
CorrelationCoefficientTest(g, cand, id, max) ==
    IF NoCorrelation(g, cand[1], cand[2]) THEN {TestRun(g.edges, RetNone, KeyError)}
    ELSE {TestRun(g.edges, RetOne(TestResult(0, cand[1], cand[2], DO_NOTHING, EmptyPayload)), OK)}
         \cup (IF id + 1 > max THEN {}
               ELSE {TestRun(g.edges, RetOne(TestResult(id + 1, cand[1], cand[2],
                                                        REMOVE_EDGE_UNDIRECTED, EmptyPayload)), OK)})

\* the data {"separatedBy": [z]} of a removal
SeparatedBy == [z \in Names |-> IF z = "A" THEN "separatedBy A"
                                ELSE IF z = "B" THEN "separatedBy B" ELSE "separatedBy C"]

\* PartialCorrelationTest.test
PartialCorrelationTest(g, cand, id, max) ==
    IF \/ NoCorrelation(g, cand[1], cand[2])
       \/ NoCorrelation(g, cand[1], cand[3])
       \/ NoCorrelation(g, cand[2], cand[3])
    THEN {TestRun(g.edges, RetOne(TestResult(0, cand[1], cand[2], DO_NOTHING, EmptyPayload)), OK)}
    ELSE {TestRun(g.edges, RetOne(TestResult(0, cand[1], cand[2], DO_NOTHING, EmptyPayload)), OK)}
         \cup (IF id + 1 > max THEN {}
               ELSE {TestRun(g.edges, RetOne(TestResult(id + 1, cand[1], cand[2],
                                                        REMOVE_EDGE_UNDIRECTED,
                                                        SeparatedBy[cand[3]])), OK)})

\* UnshieldedTriplesTest.test: a node is never an element of the list of
\* TestResults that retrieve_edge_history returns, so the first z of the set
\* (in any order) decides
UnshieldedTriplesTest(g, cand, id, max) ==
    LET x == cand[1]
        y == cand[2]
        nothing == TestRun(g.edges, RetOne(TestResult(0, x, y, DO_NOTHING, EmptyPayload)), OK)
    IN  IF edge_exists(g, x, y) THEN {nothing}
        ELSE IF x \notin DOMAIN g.edges \/ y \notin DOMAIN g.edges
             THEN {TestRun(g.edges, RetNone, KeyError)}
        ELSE LET potential_zs == (DOMAIN g.edges[x]) \cap (DOMAIN g.edges[y])
             IN  IF potential_zs = {} THEN {nothing}
                 ELSE IF <<x, y>> \notin DOMAIN g.hist THEN {TestRun(g.edges, RetNone, KeyError)}
                 ELSE IF id + 2 > max THEN {}
                 ELSE {TestRun(g.edges,
                               RetList(<<TestResult(id + 1, z, x, REMOVE_EDGE_DIRECTED, EmptyPayload),
                                         TestResult(id + 2, z, y, REMOVE_EDGE_DIRECTED, EmptyPayload)>>),
                               OK) : z \in potential_zs}

\* the candidates of a test on r nodes, in any order of the nodes
Candidates(r) ==
    {c \in [1..r -> Range(nodes)] : \A i, j \in 1..r : i # j => c[i] # c[j]}

\* test(cand, graph) of the test `name` ran as `run`
CallTest(name, cand, run) ==
    /\ pc = "tests"
    /\ edges' = run.edges
    /\ err' = run.err
    /\ iterator' = <<run.o>>
    /\ next_id' = next_id + Built(run.o)
    /\ pc' = IF run.err = OK THEN "tested" ELSE "raised"
    /\ op' = Call(name, cand[1], cand[2], IF Len(cand) > 2 THEN cand[3] ELSE NoneVal, NoneVal,
                  directed_edge_exists(G, cand[1], cand[2]),
                  directed_edge_exists(G, cand[2], cand[1]), FALSE)
    /\ UNCHANGED <<nodes, edge_history, action_history, pipeline_steps, cap, pos, step,
                   cands, inflight, actions_taken, logic, seen, start, calls>>

TestCalculateCorrelations ==
    \E cand \in Candidates(2) :
        /\ next_id < cap
        /\ \E run \in CalculateCorrelations(G, cand, next_id, cap) :
               CallTest("CalculateCorrelations", cand, run)

TestCorrelationCoefficient ==
    \E cand \in Candidates(2) :
        \E run \in CorrelationCoefficientTest(G, cand, next_id, cap) :
            CallTest("CorrelationCoefficientTest", cand, run)

TestPartialCorrelation ==
    \E cand \in Candidates(3) :
        \E run \in PartialCorrelationTest(G, cand, next_id, cap) :
            CallTest("PartialCorrelationTest", cand, run)

TestUnshieldedTriples ==
    \E cand \in Candidates(2) :
        \E run \in UnshieldedTriplesTest(G, cand, next_id, cap) :
            CallTest("UnshieldedTriplesTest", cand, run)

\* graph.py, lines 485-486: the apply pass over what the test returned
ApplyTestResult ==
    /\ pc = "tested"
    /\ LET r == _take_action(G, iterator)
       IN  /\ edges' = r.edges
           /\ edge_history' = r.hist
           /\ err' = r.err
           /\ actions_taken' = r.actions
           /\ pc' = IF r.err = OK THEN "tests" ELSE "raised"
    /\ iterator' = <<>>
    /\ UNCHANGED <<nodes, action_history, pipeline_steps, cap, op, pos, step, cands,
                   inflight, logic, next_id, seen, start, calls>>

RECURSIVE CorrelationsStep(_, _, _)
\* a CalculateCorrelations step over these candidates: every test call, then the
\* apply pass over each result; its TestResults are numbered from -1 downwards
CorrelationsStep(g, candidates, id) ==
    IF candidates = <<>> THEN g
    ELSE LET run == CHOOSE r \in CalculateCorrelations(g, Head(candidates), id - 2, 0) : TRUE
             r == _take_action(Graph(g.nodes, run.edges, g.hist), <<run.o>>)
         IN  CorrelationsStep(Graph(g.nodes, r.edges, r.hist), Tail(candidates), id - 1)

\* the graph after create_all_possible_edges, or after the CalculateCorrelations
\* step that follows it
InitTests ==
    \E g \in {FullGraph(<<"A", "B", "C">>),
              CorrelationsStep(FullGraph(<<"A", "B", "C">>),
                  AllCombinationsGenerator(FullGraph(<<"A", "B", "C">>), [min |-> 2, max |-> 2]),
                  0)} :
        InitModel(g, {<<>>}, MaxTestResults, "tests")

NextTests ==
    \/ TestCalculateCorrelations
    \/ TestCorrelationCoefficient
    \/ TestPartialCorrelation
    \/ TestUnshieldedTriples
    \/ ApplyTestResult

SpecTests == InitTests /\ [][NextTests]_vars

----------------------------------------------------------------------------
(* The candidate generators, run on a graph over up to MaxNodes nodes     *)
(* (the graph of UndirectedGraph() without nodes included) with every      *)
(* edge, or with every edge but one.                                       *)

\* nodes of the graph a generator runs on
MaxNodes == 5

Keys == <<"A", "B", "C", "D", "E", "F", "H">>

\* the graphs: all edges, or all edges but the one between the first two nodes
\* (removed in both directions, as an apply pass removes it)
GeneratorGraphs ==
    UNION {LET g == FullGraph(SubSeq(Keys, 1, n))
               r == remove_edge(g, Keys[1], Keys[2])
           IN  {g, Graph(g.nodes, r.edges, r.hist)} : n \in 0..MaxNodes}

\* the generator yielded `out`, or raised
Generated(out, x, at) ==
    /\ pc = "generator"
    /\ cands' = out
    /\ err' = x
    /\ pc' = at
    /\ UNCHANGED <<nodes, edges, edge_history, action_history, pipeline_steps, cap, op,
                   pos, step, iterator, inflight, actions_taken, logic, next_id, seen,
                   start, calls>>

GenerateAllCombinations ==
    Generated(AllCombinationsGenerator(G, pipeline_steps[1].cs), OK, "all_generated")

GeneratePairsWithNeighbours ==
    \E chunked \in BOOLEAN :
        LET r == PairsWithNeighboursGenerator(G, pipeline_steps[1].cs, chunked)
        IN  Generated(r.yields, r.err, "pairs_generated")

\* a Test step with comparison settings min, max (max = AS_MANY_AS_FIELDS included)
InitGenerators ==
    \E g \in GeneratorGraphs :
        InitModel(g, {<<TestStep("Test", FALSE, lo, hi)>> :
                         lo \in 0..MaxNodes, hi \in 0..MaxNodes}, 0, "generator")

NextGenerators ==
    \/ GenerateAllCombinations
    \/ GeneratePairsWithNeighbours

SpecGenerators == InitGenerators /\ [][NextGenerators]_vars

----------------------------------------------------------------------------
(* PairsWithNeighboursGenerator as the parallel branch of                  *)
(* execute_pipeline_step consumes it: imap_unordered pulls the next yield  *)
(* from the generator while the loop body applies the results that have    *)
(* come back, so an apply pass can run between two steps of the generator. *)
(* pos is the size i of the pass, start.step.edges is local_edges,         *)
(* iterator holds the pairs of local_edges the two for loops have not      *)
(* reached yet, and cands what the generator has yielded.                  *)

\* results that come back and are applied while the generator runs
MaxMutations == 1

\* the graph over five nodes in which the first node has the other four as
\* neighbours and no other edge is left
StarGraph ==
    LET keys == SubSeq(Keys, 1, 5)
    IN  AddEdges(create_graph_from_data(keys), [k \in 1..4 |-> <<keys[1], keys[k + 1]>>])

\* generate, lines 72-80: stop
PairsStop(g, cs) ==
    LET n == Len(g.nodes)
        stop0 == IF cs.max = AS_MANY_AS_FIELDS THEN n + 1 ELSE cs.max + 1
    IN  IF stop0 > n + 1 THEN n + 1 ELSE stop0

\* generate, lines 66-88: up to the for loop over the sizes
PairsBegin ==
    /\ pc = "generator"
    /\ LET cs == pipeline_steps[1].cs
       IN  IF cs.min > Len(nodes) \/ PairsStop(G, cs) < cs.min
           THEN pc' = "pairs_generated" /\ err' = OK /\ pos' = pos
           ELSE IF cs.min < 2
           THEN pc' = "pairs_generated" /\ err' = ValueError /\ pos' = pos
           ELSE pc' = "pass_start" /\ err' = OK /\ pos' = cs.min
    /\ step' = pipeline_steps[1]
    /\ UNCHANGED <<nodes, edges, edge_history, action_history, pipeline_steps, cap, op,
                   cands, iterator, inflight, actions_taken, logic, next_id, seen, start,
                   calls>>

\* lines 90-93: the next size i, local_edges = copy.deepcopy(graph.edges)
PassStart ==
    /\ pc = "pass_start"
    /\ IF pos < PairsStop(G, step.cs)
       THEN /\ start' = [start EXCEPT !.step = Snap]
            /\ iterator' = LocalPairs(G)
            /\ pc' = "pass"
       ELSE /\ start' = start
            /\ iterator' = iterator
            /\ pc' = "pairs_generated"
    /\ UNCHANGED <<nodes, edges, edge_history, action_history, err, pipeline_steps, cap, op,
                   pos, step, cands, inflight, actions_taken, logic, next_id, seen, calls>>

\* lines 94-125: the next pair (node, neighbour) of local_edges and what it yields;
\* other_neighbours is read from graph.edges[node] at that moment
PairNext ==
    /\ pc = "pass" /\ iterator # <<>>
    /\ cands' = cands \o PairYield(G, pos, Head(iterator)[1], Head(iterator)[2],
                                   step.name = "Chunked")
    /\ iterator' = Tail(iterator)
    /\ UNCHANGED <<nodes, edges, edge_history, action_history, err, pipeline_steps, cap, op,
                   pos, pc, step, inflight, actions_taken, logic, next_id, seen, start,
                   calls>>

\* the two for loops over local_edges are through
PassEnd ==
    /\ pc = "pass" /\ iterator = <<>>
    /\ pos' = pos + 1
    /\ pc' = "pass_start"
    /\ UNCHANGED <<nodes, edges, edge_history, action_history, err, pipeline_steps, cap, op,
                   step, cands, iterator, inflight, actions_taken, logic, next_id, seen,
                   start, calls>>

\* execute_pipeline_step, lines 473-475: a result has come back and is applied,
\* here the removal of an edge of the first node
ResultApplied ==
    \E y \in Range(nodes) \ {nodes[1]} :
        /\ pc \in {"pass_start", "pass"}
        /\ next_id < cap
        /\ LET r == _take_action(G, <<RetOne(TestResult(next_id + 1, nodes[1], y,
                                                       REMOVE_EDGE_UNDIRECTED, EmptyPayload))>>)
           IN  /\ edges' = r.edges
               /\ edge_history' = r.hist
               /\ err' = r.err
        /\ next_id' = next_id + 1
        /\ UNCHANGED <<nodes, action_history, pipeline_steps, cap, op, pos, pc, step, cands,
                       iterator, inflight, actions_taken, logic, seen, start, calls>>

\* a parallel step with PairsWithNeighboursGenerator, chunked or not, for the
\* sizes 2 to 3 or the size 3
InitPairs ==
    InitModel(StarGraph,
              {<<TestStep(c, TRUE, lo, 3)>> : c \in {"Chunked", "Unchunked"}, lo \in {2, 3}},
              MaxMutations, "generator")

NextPairs ==
    \/ PairsBegin
    \/ PassStart
    \/ PairNext
    \/ PassEnd
    \/ ResultApplied

SpecPairs == InitPairs /\ [][NextPairs]_vars

----------------------------------------------------------------------------
(* Ingestion: create_graph_from_data on a list of rows.  A row is the list *)
(* of its keys, in the order of the dict; the values play no part.         *)

\* rows of the dataset handed to create_graph_from_data
MaxRows == 3

IndexError == "IndexError"

\* the rows: the keys A, B, C or some of them
Rows == {SelectSeq(<<"A", "B", "C">>, LAMBDA k : k \in S) : S \in SUBSET {"A", "B", "C"}}
Datasets == UNION {[1..n -> Rows] : n \in 0..MaxRows}

\* create_graph_from_data(data): data[0] raises IndexError on an empty list,
\* row[key] raises KeyError for a key of the first row that the row lacks; a
\* key of a later row that the first row lacks is never looked at
create_graph_from_rows(data) ==
    LET empty == Graph(<<>>, EmptyDict, EmptyDict)
    IN  IF data = <<>> THEN [graph |-> empty, err |-> IndexError]
        ELSE IF \E i \in DOMAIN data : \E k \in DOMAIN data[1] : data[1][k] \notin Range(data[i])
             THEN [graph |-> empty, err |-> KeyError]
        ELSE [graph |-> create_graph_from_data(data[1]), err |-> OK]

CreateGraphFromData ==
    /\ pc = "new"
    /\ \E data \in Datasets :
        LET r == create_graph_from_rows(data)
        IN  /\ cands' = data
            /\ nodes' = r.graph.nodes
            /\ edges' = r.graph.edges
            /\ edge_history' = r.graph.hist
            /\ err' = r.err
            /\ pc' = IF r.err = OK THEN "graph" ELSE "raised"
    /\ UNCHANGED <<action_history, pipeline_steps, cap, op, pos, step, iterator, inflight,
                   actions_taken, logic, next_id, seen, start, calls>>

CreateAllPossibleEdges ==
    /\ pc = "graph"
    /\ LET g == create_all_possible_edges(G)
       IN  edges' = g.edges /\ edge_history' = g.hist
    /\ pc' = "edges"
    /\ UNCHANGED <<nodes, action_history, err, pipeline_steps, cap, op, pos, step, cands,
                   iterator, inflight, actions_taken, logic, next_id, seen, start, calls>>

\* a graph model without a graph
InitIngest == InitModel(Graph(<<>>, EmptyDict, EmptyDict), {<<>>}, 0, "new")

NextIngest ==
    \/ CreateGraphFromData
    \/ CreateAllPossibleEdges

SpecIngest == InitIngest /\ [][NextIngest]_vars

----------------------------------------------------------------------------
(* Properties of the engine and of the graph store *)

\* the TestResults of the sequential batch, in the order _take_action meets them
Batch == Flatten([k \in DOMAIN iterator |-> Items(iterator[k])])

\* the apply pass of the running step after its first k results
PassAfter(items, k) ==
    TakeAll(nodes, Pass(start.step.edges, start.step.hist, OK, <<>>), SubSeq(items, 1, k))

\* the list without its j-th element
Without(items, j) == SubSeq(items, 1, j - 1) \o SubSeq(items, j + 1, Len(items))

SamePair(a, b) == {a.x, a.y} = {b.x, b.y}

\* the earlier results of the batch that removed the undirected edge of items[j]
RemovedBefore(items, j) ==
    {i \in 1..(j - 1) : /\ items[i].action = REMOVE_EDGE_UNDIRECTED
                        /\ SamePair(items[i], items[j])
                        /\ items[i] \in Range(PassAfter(items, i).actions)}

\* the REMOVE_EDGE_UNDIRECTED results of the batch whose edge an earlier one removed
Stale(items) ==
    {j \in DOMAIN items : items[j].action = REMOVE_EDGE_UNDIRECTED
                          /\ RemovedBefore(items, j) # {}}

SeqApplied == pc = "applied" /\ ~step.PARALLEL

----------------------------------------------------------------------------
(* C1: Apply skip safety.  After the apply pass of a sequential step, a     *)
(* REMOVE_EDGE_UNDIRECTED result whose edge an earlier result of the same  *)
(* batch removed has raised nothing, is not in the returned list, has left *)
(* the edge absent and the two histories as the earlier result left them,  *)
(* and the pass ended as the pass over the batch without it ends.          *)
C1_ApplySkipSafety ==
    SeqApplied =>
        \A j \in Stale(Batch) :
            LET r == Batch[j]
                rest == TakeAll(nodes, Pass(start.step.edges, start.step.hist, OK, <<>>),
                                Without(Batch, j))
            IN  /\ err = OK
                /\ r \notin Range(actions_taken)
                /\ r \notin Range(action_history[Len(action_history)].actions)
                /\ ~directed_edge_exists(G, r.x, r.y)
                /\ ~directed_edge_exists(G, r.y, r.x)
                /\ \A i \in RemovedBefore(Batch, j) :
                       /\ edge_history[<<r.x, r.y>>] = PassAfter(Batch, i).hist[<<r.x, r.y>>]
                       /\ edge_history[<<r.y, r.x>>] = PassAfter(Batch, i).hist[<<r.y, r.x>>]
                /\ edges = rest.edges
                /\ edge_history = rest.hist
                /\ actions_taken = rest.actions

\* a pass skipped a stale removal and then applied a later result of the batch
C1_Witness ==
    /\ SeqApplied
    /\ \E j \in Stale(Batch) :
           \E k \in (j + 1)..Len(Batch) : Batch[k] \in Range(actions_taken)

----------------------------------------------------------------------------
\* an ApplyActionsTogether step is executing and has not reached line 94
TogetherRunning ==
    logic.kind = "ApplyActionsTogether" /\ pc \in {"child", "test", "applied", "together"}

\* the graph a test call or a finished child saw is the graph the Logic step began with
AtLogicStart(c) == c.edges = start.logic.edges /\ c.hist = start.logic.hist

(* C2: ApplyActionsTogether defers commit.  Until the apply pass after the  *)
(* last child step the graph is the graph the step began with, and every   *)
(* test call of every child step is handed that graph.                     *)
C2_TogetherDefersCommit ==
    TogetherRunning =>
        /\ edges = start.logic.edges
        /\ edge_history = start.logic.hist
        /\ \A c \in Range(seen) : AtLogicStart(c)
        /\ \A k \in DOMAIN calls.child : \A c \in calls.child[k].saw : AtLogicStart(c)

\* the child call decided to remove the undirected edge between A and B
DecidedRemoveAB(c) ==
    \E d \in c.decided : d.action = REMOVE_EDGE_UNDIRECTED /\ {d.x, d.y} = {"A", "B"}

(* C3: when the two child steps of an ApplyActionsTogether step both       *)
(* decide REMOVE_EDGE_UNDIRECTED for A-B, then after the step the edge is  *)
(* gone, it was removed once (one entry in the history of each direction), *)
(* and the step added one action history entry, which holds one action.    *)
C3_TogetherRemovesOnce ==
    (/\ pc = "together_done"
     /\ Len(calls.child) = 2
     /\ \A k \in DOMAIN calls.child : DecidedRemoveAB(calls.child[k]))
    => /\ ~edge_exists(G, "A", "B")
       /\ Len(edge_history[<<"A", "B">>]) = Len(start.logic.hist[<<"A", "B">>]) + 1
       /\ Len(edge_history[<<"B", "A">>]) = Len(start.logic.hist[<<"B", "A">>]) + 1
       /\ Len(action_history) = start.logic.ah + 1
       /\ Len(action_history[Len(action_history)].actions) = 1

----------------------------------------------------------------------------
\* the test call was handed the graph the running step began with
AtStepStart(c) == c.edges = start.step.edges /\ c.hist = start.step.hist

\* the graph is the graph the running step began with
StoreAtStepStart == edges = start.step.edges /\ edge_history = start.step.hist

(* C4: the graph store is read-only during generation and test.  For every *)
(* Test step, parallel or sequential, the graph is not mutated while the   *)
(* generator has candidates left or a test has not returned, and every     *)
(* test of the step is handed the graph of step start.                     *)
C4_ReadOnlyDuringTest ==
    /\ (pc = "test" /\ (cands # <<>> \/ inflight # {})) => StoreAtStepStart
    /\ pc \in {"test", "applied"} => \A c \in Range(seen) : AtStepStart(c)

----------------------------------------------------------------------------
\* the test returns REMOVE_EDGE_UNDIRECTED for the pair (A, B), DO_NOTHING otherwise
RemovesOnlyAB ==
    \A k \in DOMAIN iterator :
        /\ iterator[k].tag = "one"
        /\ iterator[k].r.action =
               IF {iterator[k].r.x, iterator[k].r.y} = {"A", "B"}
               THEN REMOVE_EDGE_UNDIRECTED ELSE DO_NOTHING

\* the first step of the pipeline, sequential and of arity 2, has run on A, B, C
\* with all edges
Scenario5 ==
    /\ pc = "applied"
    /\ step = SeqStep
    /\ nodes = <<"A", "B", "C">>
    /\ start.step.ah = 0
    /\ start.step.edges = FullGraph(nodes).edges
    /\ RemovesOnlyAB

(* C5: on A, B, C with all edges, one sequential execution of an arity-2   *)
(* Test step that returns REMOVE_EDGE_UNDIRECTED for (A, B) and DO_NOTHING *)
(* for every other pair ends without A->B and B->A, with both directions   *)
(* of A-C and of B-C, and with one action history entry that holds one     *)
(* action.                                                                 *)
C5_Scenario ==
    Scenario5 =>
        /\ ~directed_edge_exists(G, "A", "B")
        /\ ~directed_edge_exists(G, "B", "A")
        /\ undirected_edge_exists(G, "A", "C")
        /\ undirected_edge_exists(G, "B", "C")
        /\ Len(action_history) = 1
        /\ Len(action_history[1].actions) = 1

\* the scenario ran: three tests, the first one returned the removal of A-B
C5_Witness ==
    /\ Scenario5
    /\ Len(iterator) = 3
    /\ iterator[1].r.action = REMOVE_EDGE_UNDIRECTED
    /\ iterator[2].r.action = DO_NOTHING
    /\ iterator[3].r.action = DO_NOTHING

----------------------------------------------------------------------------
\* the action history entry of the c-th child call of the running Logic step
ChildEntry(c) == action_history[start.logic.ah + c]

\* the actions the child steps applied during round n of the running Loop
RoundActions(n) ==
    Flatten([c \in DOMAIN calls.child |->
                IF calls.child[c].round = n THEN ChildEntry(c).actions ELSE <<>>])

(* C6: Loop protocol.  The exit condition is evaluated before every round: *)
(* first with actions_taken = None and iteration = 0, then with the        *)
(* actions the child steps applied during the round before (and no earlier *)
(* round's) and iteration = the number of completed rounds; the child      *)
(* steps of a round run in list order; the loop stops at the first         *)
(* evaluation that returns true and runs no child step after it.           *)
C6_LoopProtocol ==
    logic.kind = "Loop" =>
        LET E == calls.exit
            Ch == calls.child
            m == Len(logic.children)
        IN  /\ E # <<>> => E[1].none /\ E[1].iteration = 0
            /\ \A k \in DOMAIN E :
                   /\ E[k].iteration = k - 1
                   /\ k >= 2 => ~E[k].none /\ E[k].actions_taken = RoundActions(k - 2)
                   /\ k < Len(E) => ~E[k].ret
            /\ \A c \in DOMAIN Ch :
                   /\ Ch[c].idx = ((c - 1) % m) + 1
                   /\ Ch[c].round = (c - 1) \div m
                   /\ ChildEntry(c).step = logic.children[Ch[c].idx].name
                   /\ Ch[c].ret = ChildEntry(c).actions
                   /\ Ch[c].round + 1 <= Len(E)
                   /\ ~E[Ch[c].round + 1].ret
            /\ pc \in {"child", "test", "applied"} =>
                   E # <<>> /\ ~E[Len(E)].ret /\ Len(E) = logic.n + 1
            /\ pc = "loop" => Len(E) = logic.n /\ Len(Ch) = logic.n * m
            /\ pc = "loop_done" => E[Len(E)].ret /\ Len(Ch) = (Len(E) - 1) * m

\* a Loop of two child steps ran two rounds, each of which applied an action
C6_Witness ==
    /\ logic.kind = "Loop"
    /\ pc = "loop_done"
    /\ Len(logic.children) = 2
    /\ Len(calls.exit) = 3
    /\ calls.exit[2].actions_taken # <<>>
    /\ calls.exit[3].actions_taken # <<>>

----------------------------------------------------------------------------
\* a Loop with ExitOnNoActions has run two rounds: the first applied an action,
\* the second none
TwoRounds ==
    /\ logic.kind = "Loop"
    /\ logic.exit = "ExitOnNoActions"
    /\ logic.n >= 2
    /\ RoundActions(0) # <<>>
    /\ RoundActions(1) = <<>>

(* C7: Loop termination.  A Loop with the zero-actions exit condition      *)
(* whose child steps apply at least one action in the first round and none *)
(* in the second executes exactly two rounds and then stops.               *)
C7_LoopTermination ==
    TwoRounds =>
        /\ logic.n = 2
        /\ pc \in {"loop", "loop_done"}
        /\ Len(calls.child) = 2 * Len(logic.children)
        /\ pc = "loop" => ExitValues(logic) = {TRUE}
        /\ pc = "loop_done" => Len(calls.exit) = 3 /\ calls.exit[3].ret

\* the Loop has stopped after its second round
C7_Witness == TwoRounds /\ pc = "loop_done" /\ Len(logic.children) = 2

----------------------------------------------------------------------------
\* the history of the pair p is kept by the step: no entry deleted or replaced
HistoryKept(p) ==
    /\ p \in DOMAIN edge_history'
    /\ Len(edge_history'[p]) >= Len(edge_history[p])
    /\ SubSeq(edge_history'[p], 1, Len(edge_history[p])) = edge_history[p]

(* C8: History monotonicity.  No call of add_edge, remove_edge,            *)
(* remove_directed_edge, update_edge, update_directed_edge or              *)
(* add_edge_history and no apply pass makes the history of an ordered pair *)
(* shorter, or deletes or replaces an entry of it.                         *)
C8_HistoryNeverShrinks == [][\A p \in DOMAIN edge_history : HistoryKept(p)]_vars

----------------------------------------------------------------------------
\* the pipeline has run to its end
RunOver == pc = "pipeline" /\ pos > Len(pipeline_steps)

\* the TestResults the run applied: the actions of the action history
AppliedResults == UNION {Range(action_history[k].actions) : k \in DOMAIN action_history}

\* the ordered pairs whose history _take_action writes when it applies r
Touches(r, p) ==
    IF r.action \in {REMOVE_EDGE_UNDIRECTED, UPDATE_EDGE}
    THEN p \in {<<r.x, r.y>>, <<r.y, r.x>>}
    ELSE p = <<r.x, r.y>>

(* C9: History length equals applied results.  After a pipeline run, also  *)
(* one with a Loop or an ApplyActionsTogether step, the history of an      *)
(* ordered pair is as long as the number of distinct TestResults that were *)
(* applied and touched the pair, and no TestResult is in it twice.         *)
C9_HistoryLength ==
    RunOver =>
        \A p \in DOMAIN edge_history :
            /\ Len(edge_history[p]) = Cardinality({r \in AppliedResults : Touches(r, p)})
            /\ \A i \in DOMAIN edge_history[p] : \A j \in DOMAIN edge_history[p] :
                   i # j => edge_history[p][i] # edge_history[p][j]

----------------------------------------------------------------------------
\* the step is a call of update_edge or update_directed_edge on two nodes whose
\* edge (u-v, or u->v for update_directed_edge) is not present
UpdateOfAbsentEdge ==
    /\ op'.name \in {"update_edge", "update_directed_edge"}
    /\ HasNode(G, op'.u) /\ HasNode(G, op'.v)
    /\ IF op'.name = "update_edge" THEN ~edge_exists(G, op'.u, op'.v)
       ELSE ~directed_edge_exists(G, op'.u, op'.v)

(* C10: update_edge and update_directed_edge require the edge to exist.    *)
(* Called for two nodes whose edge is not present, the call raises the     *)
(* graph error and leaves the adjacency and the payloads as they were; it  *)
(* creates no entry.                                                       *)
C10_UpdateRequiresEdge ==
    [][UpdateOfAbsentEdge => err' = UndirectedGraphError /\ edges' = edges]_vars

----------------------------------------------------------------------------
\* the graph after the step
GNext == Graph(nodes', edges', edge_history')

(* C11: remove_edge postcondition.  For two nodes of the graph, whatever   *)
(* entries were present before (both, only u->v, only v->u, none, also     *)
(* for nodes that never had an edge), remove_edge(u, v) raises nothing and *)
(* afterwards neither u->v nor v->u is present.                            *)
C11_RemoveEdgePostcondition ==
    [][(op'.name = "remove_edge" /\ HasNode(G, op'.u) /\ HasNode(G, op'.v))
       => /\ err' = OK
          /\ ~directed_edge_exists(GNext, op'.u, op'.v)
          /\ ~directed_edge_exists(GNext, op'.v, op'.u)]_vars

C13_EdgeSymmetry ==
    [][(op'.name = "add_edge" /\ HasNode(G, op'.u) /\ HasNode(G, op'.v))
       => /\ err' = OK
          /\ edge_exists(GNext, op'.u, op'.v)
          /\ edge_exists(GNext, op'.v, op'.u)
          /\ directed_edge_exists(GNext, op'.u, op'.v)
          /\ directed_edge_exists(GNext, op'.v, op'.u)
          /\ edge_value(GNext, op'.u, op'.v) = op'.value
          /\ edge_value(GNext, op'.v, op'.u) = op'.value]_vars

\* add_edge has created an edge with a payload of a test, also over an edge of
\* which one entry was left
C13_Witness ==
    /\ op.name = "add_edge" /\ err = OK
    /\ op.value \in Data
    /\ op.uv /\ ~op.vu
    /\ edge_value(G, op.u, op.v) = op.value
    /\ edge_value(G, op.v, op.u) = op.value

\* the two entries of the pair, when both are present, carry the same payload
SamePayload(g, u, v) ==
    undirected_edge_exists(g, u, v) => edge_value(g, u, v) = edge_value(g, v, u)

(* C14: Same payload in both directions.  In every reachable state, an     *)
(* edge of which both entries are present carries the same payload on      *)
(* u->v and on v->u.                                                       *)
C14_SamePayloadAlways ==
    \A u \in Range(nodes), v \in Range(nodes) : SamePayload(G, u, v)

\* the step is update_directed_edge on u, v or v, u: a direct call, or the apply
\* pass of an UPDATE_EDGE_DIRECTED result
DirectedUpdateOf(u, v) ==
    /\ \/ op'.name = "update_directed_edge"
       \/ op'.name = "_take_action" /\ op'.action = UPDATE_EDGE_DIRECTED
    /\ {op'.u, op'.v} = {u, v}

(* C14, as the code has it: add_edge and update_edge give both entries the *)
(* same payload, and the two entries of a pair keep the same payload while *)
(* both are present, under every call and apply pass but                   *)
(* update_directed_edge (direct, or for an UPDATE_EDGE_DIRECTED result),   *)
(* which replaces the payload of one entry.                                *)
C14_SamePayloadUntilDirectedUpdate ==
    [][\A u \in Range(nodes), v \in Range(nodes) :
           (SamePayload(G, u, v) /\ ~DirectedUpdateOf(u, v)) => SamePayload(GNext, u, v)]_vars

\* update_edge has replaced the payload of an edge that had both entries
C14_Witness ==
    /\ op.name = "update_edge" /\ err = OK
    /\ op.uv /\ op.vu
    /\ undirected_edge_exists(G, op.u, op.v)
    /\ edge_value(G, op.u, op.v) = op.value
    /\ edge_value(G, op.v, op.u) = op.value

----------------------------------------------------------------------------
\* the TestResults the test calls of the running step returned
Returned == UNION {Range(Items(c.o)) : c \in Range(seen)}

\* the TestResults of the running step that the apply pass recorded in the history
\* of their pair: those that passed the check of their action and were applied
Recorded ==
    {r \in Returned : /\ <<r.x, r.y>> \in DOMAIN edge_history
                      /\ r \in Range(edge_history[<<r.x, r.y>>])}

(* C15: Record.  An execution of a pipeline step by execute_pipeline_step  *)
(* appends one entry to the action history, with the name of the step and  *)
(* the results that were applied during the execution, each once; that     *)
(* list is what the execution returns.  Before the end of the execution no *)
(* entry is appended.                                                      *)
C15_Record ==
    /\ pc = "test" => Len(action_history) = start.step.ah
    /\ pc = "applied" =>
           /\ Len(action_history) = start.step.ah + 1
           /\ action_history[Len(action_history)] =
                  [step |-> step.name, actions |-> actions_taken]
           /\ Range(actions_taken) = Recorded
           /\ Len(actions_taken) = Cardinality(Recorded)

\* a parallel step has ended as the second step of the pipeline and one of its
\* results was skipped by the apply pass
C15_Witness ==
    /\ pc = "applied" /\ step.PARALLEL
    /\ Len(action_history) = 2
    /\ \E r \in Returned : r.id # 0 /\ r \notin Range(actions_taken)

----------------------------------------------------------------------------
\* the step is a call of test(cand, graph)
TestCalled == pc = "tests" /\ pc' # "tests"

(* C16: Tests are side-effect-free on the graph.  A call of test(cand,     *)
(* graph) of any test leaves the nodes, the adjacency with every payload,  *)
(* the edge history and the action history as they were.                   *)
C16_TestsLeaveGraph ==
    [][TestCalled =>
           /\ nodes' = nodes
           /\ edges' = edges
           /\ edge_history' = edge_history
           /\ action_history' = action_history]_vars

\* a payload that the test called in this step reads is absent before the call:
\* the entry is gone, or (for the tests that read it) it has no correlation
PayloadAbsent ==
    \/ /\ op'.name = "CalculateCorrelations"
       /\ NoEntry(G, op'.u, op'.v)
    \/ /\ op'.name = "CorrelationCoefficientTest"
       /\ NoCorrelation(G, op'.u, op'.v)
    \/ /\ op'.name = "PartialCorrelationTest"
       /\ \/ NoCorrelation(G, op'.u, op'.v)
          \/ NoCorrelation(G, op'.u, op'.value)
          \/ NoCorrelation(G, op'.v, op'.value)

(* C17: Tests degrade gracefully.  A call of test(cand, graph) that finds  *)
(* a payload it reads absent raises nothing and returns one DO_NOTHING     *)
(* result.                                                                 *)
C17_TestsDegrade ==
    [][TestCalled /\ PayloadAbsent =>
           /\ err' = OK
           /\ Len(iterator') = 1
           /\ iterator'[1].tag = "one"
           /\ iterator'[1].r.action = DO_NOTHING]_vars

----------------------------------------------------------------------------
\* the lists of distinct nodes from u to v
NodePaths(g, u, v) ==
    {p \in UNION {[1..k -> Range(g.nodes)] : k \in 2..Len(g.nodes)} :
        /\ p[1] = u /\ p[Len(p)] = v
        /\ \A i, j \in DOMAIN p : i # j => p[i] # p[j]}

\* a directed path from u to v on which every interior node is a collider: both
\* of its neighbours on the path have an edge into it
InducingPath(g, u, v) ==
    \E p \in NodePaths(g, u, v) :
        /\ \A i \in 1..(Len(p) - 1) : directed_edge_exists(g, p[i], p[i + 1])
        /\ \A i \in 2..(Len(p) - 1) : directed_edge_exists(g, p[i + 1], p[i])

(* C18: inducing_path_exists(u, v) returns true exactly when there is a    *)
(* directed path from u to v on which every interior node is a collider,   *)
(* and false otherwise.                                                    *)
C18_InducingPath ==
    \A u, v \in Range(nodes) :
        u # v => inducing_path_exists(G, u, v) = {Answer(InducingPath(G, u, v))}

----------------------------------------------------------------------------
(* C19: PairsWithNeighboursGenerator tuple size.  Every tuple emitted in   *)
(* the size-pass for i has exactly i elements: the pair (node, neighbour)  *)
(* and then i-2 distinct neighbours of node other than neighbour.          *)
C19_PairsTupleSize ==
    pc = "pairs_generated" =>
        \A k \in DOMAIN cands : \A j \in DOMAIN cands[k].tuples :
            LET t == cands[k].tuples[j]
                i == cands[k].i
            IN  /\ Len(t) = i
                /\ directed_edge_exists(G, t[1], t[2])
                /\ \A a \in 3..Len(t) :
                       /\ directed_edge_exists(G, t[1], t[a])
                       /\ t[a] # t[2]
                       /\ \A b \in 3..Len(t) : a # b => t[a] # t[b]

RECURSIVE Binomial(_, _)
\* the number of k-subsets of a set of n elements
Binomial(n, k) ==
    IF k = 0 THEN 1 ELSE IF n = 0 THEN 0 ELSE Binomial(n - 1, k - 1) + Binomial(n - 1, k)

\* AllCombinationsGenerator ran with min = max = k for a k from 1 to the number of nodes
SameMinMax ==
    /\ pc = "all_generated"
    /\ pipeline_steps[1].cs.min = pipeline_steps[1].cs.max
    /\ pipeline_steps[1].cs.min >= 1
    /\ pipeline_steps[1].cs.min <= Len(nodes)

(* C20: Generator completeness.  AllCombinationsGenerator with min = max = *)
(* k over n >= k nodes yields C(n, k) tuples; each holds k different node  *)
(* names, and no two tuples hold the same set of names.                    *)
C20_GeneratorCompleteness ==
    SameMinMax =>
        LET k == pipeline_steps[1].cs.min
        IN  /\ Len(cands) = Binomial(Len(nodes), k)
            /\ \A i \in DOMAIN cands :
                   /\ Len(cands[i]) = k
                   /\ Cardinality(Range(cands[i])) = k
                   /\ Range(cands[i]) \subseteq Range(nodes)
            /\ \A i, j \in DOMAIN cands : i # j => Range(cands[i]) # Range(cands[j])

\* the 3-subsets of five nodes were generated: ten tuples
C20_Witness ==
    /\ SameMinMax
    /\ pipeline_steps[1].cs.min = 3
    /\ Len(nodes) = 5
    /\ Len(cands) = 10

----------------------------------------------------------------------------
\* the comparison settings of the generator call, and max with AS_MANY_AS_FIELDS
\* resolved to the number of nodes
Settings == pipeline_steps[1].cs
ResolvedMax == IF Settings.max = AS_MANY_AS_FIELDS THEN Len(nodes) ELSE Settings.max

\* the sets of nodes whose size is in the range of the settings
SizesInRange ==
    {S \in SUBSET Range(nodes) :
        /\ Settings.min <= Cardinality(S)
        /\ Cardinality(S) <= ResolvedMax}

(* C21: AllCombinationsGenerator range.  For bounds (min, max) over n      *)
(* nodes the generator yields the r-combinations of the nodes for every r  *)
(* with min <= r <= min(max, n), max = AS_MANY_AS_FIELDS standing for n,   *)
(* each once, and no tuple of another size.                                *)
C21_AllCombinationsRange ==
    pc = "all_generated" =>
        /\ {Range(cands[i]) : i \in DOMAIN cands} = SizesInRange
        /\ Len(cands) = Cardinality(SizesInRange)
        /\ \A i \in DOMAIN cands : Len(cands[i]) = Cardinality(Range(cands[i]))

\* sizes 2 to 4 of four nodes with max = AS_MANY_AS_FIELDS: 6 + 4 + 1 tuples
C21_Witness ==
    /\ pc = "all_generated"
    /\ Settings = [min |-> 2, max |-> AS_MANY_AS_FIELDS]
    /\ Len(nodes) = 4
    /\ Len(cands) = 11

(* C22: Generator emptiness.  AllCombinationsGenerator with min = k over   *)
(* fewer than k nodes, or with a resolved size range that is empty (max    *)
(* below min), yields nothing and raises nothing.                          *)
C22_GeneratorEmptiness ==
    (pc = "all_generated" /\ (Settings.min > Len(nodes) \/ ResolvedMax < Settings.min)) =>
        cands = <<>> /\ err = OK

\* tuples of three nodes were asked for on a graph of two nodes
C22_Witness ==
    /\ pc = "all_generated" /\ cands = <<>> /\ err = OK
    /\ Len(nodes) = 2
    /\ Settings = [min |-> 3, max |-> AS_MANY_AS_FIELDS]

(* C23: PairsWithNeighboursGenerator with min < 2 fails with a             *)
(* configuration error on every graph, the graph without nodes and graphs  *)
(* with fewer nodes than min included, and yields no tuple.                *)
C23_PairsMinBelowTwo ==
    (pc = "pairs_generated" /\ Settings.min < 2) => err = ValueError /\ cands = <<>>

----------------------------------------------------------------------------
(* C24: Empty child-step lists are configuration errors.  Constructing a   *)
(* Loop or an ApplyActionsTogether with an empty list of child steps       *)
(* fails, so no pipeline that runs holds such a step.                      *)
C24_NoEmptyChildLists ==
    \A k \in DOMAIN pipeline_steps :
        pipeline_steps[k].kind \in {"Loop", "ApplyActionsTogether"} =>
            pipeline_steps[k].children # <<>>

----------------------------------------------------------------------------
\* the rows are not empty and all have the keys of the first row, no more and no less
SameKeys(data) ==
    /\ data # <<>>
    /\ \A i \in DOMAIN data : Range(data[i]) = Range(data[1])

(* C25: Ingestion validation.  create_graph_from_data fails for an empty   *)
(* list of rows and for rows that do not all have the same keys (a row     *)
(* that lacks a key of the first row, or has a key the first row lacks);   *)
(* when it succeeds, the nodes are the common keys.                        *)
C25_IngestionValidation ==
    pc \in {"graph", "raised", "edges"} =>
        IF SameKeys(cands) THEN err = OK /\ Range(nodes) = Range(cands[1])
        ELSE err # OK /\ pc = "raised"

----------------------------------------------------------------------------
\* the ordered pairs whose history an applied result is appended to
Written(r) ==
    IF r.action \in {REMOVE_EDGE_UNDIRECTED, UPDATE_EDGE} THEN {<<r.x, r.y>>, <<r.y, r.x>>}
    ELSE IF r.action \in {REMOVE_EDGE_DIRECTED, UPDATE_EDGE_DIRECTED} THEN {<<r.x, r.y>>}
    ELSE {}

\* the history of an ordered pair, empty for a pair without one
HistoryOf(h, p) == IF p \in DOMAIN h THEN h[p] ELSE <<>>

(* C26: Apply history bookkeeping.  After the apply pass of a step the     *)
(* history of every ordered pair is its history before the step followed   *)
(* by the applied results written to the pair, in order and once each: a   *)
(* symmetric action on (x, y) is written to (x, y) and to (y, x), a        *)
(* directed action to (x, y) only.                                         *)
C26_HistoryBookkeeping ==
    SeqApplied =>
        \A p \in Range(nodes) \X Range(nodes) :
            HistoryOf(edge_history, p) =
                HistoryOf(start.step.hist, p)
                    \o SelectSeq(actions_taken, LAMBDA r : p \in Written(r))

\* a pass applied a directed removal and an update of an edge
C26_Witness ==
    /\ SeqApplied
    /\ \E r \in Range(actions_taken) :
           /\ r.action = REMOVE_EDGE_DIRECTED
           /\ r \notin Range(HistoryOf(edge_history, <<r.y, r.x>>))
    /\ \E r \in Range(actions_taken) :
           /\ r.action = UPDATE_EDGE
           /\ r \in Range(HistoryOf(edge_history, <<r.y, r.x>>))

----------------------------------------------------------------------------
\* every test call of the running step returned one DO_NOTHING result
OnlyNothing ==
    /\ iterator # <<>>
    /\ \A k \in DOMAIN iterator :
           iterator[k].tag = "one" /\ iterator[k].r.action = DO_NOTHING

(* C27: DO_NOTHING results are never applied.  After the apply pass of a   *)
(* step no DO_NOTHING result, with or without x and y, is in the list of   *)
(* applied actions or in a history; when every test returned DO_NOTHING    *)
(* the adjacency and the histories are those before the step and the       *)
(* entry of the step in the action history has an empty list of actions.   *)
C27_NothingApplied ==
    SeqApplied =>
        /\ \A r \in Range(actions_taken) : r.action # DO_NOTHING
        /\ \A p \in DOMAIN edge_history : \A r \in Range(edge_history[p]) :
               r.action # DO_NOTHING
        /\ OnlyNothing =>
               /\ edges = start.step.edges
               /\ edge_history = start.step.hist
               /\ err = OK
               /\ action_history[Len(action_history)] = [step |-> step.name, actions |-> <<>>]

\* a PlaceholderTest step ended after a step that applied an action
C27_Witness ==
    /\ SeqApplied /\ OnlyNothing
    /\ step.name = "PlaceholderTest"
    /\ Len(iterator) = 3
    /\ Len(action_history) = 2
    /\ action_history[1].actions # <<>>

----------------------------------------------------------------------------
\* the adjacency holds the entry u->v
Present(u, v) == u \in DOMAIN edges /\ v \in DOMAIN edges[u]

(* C28: only_directed_edge_exists(u, v) is true exactly when precisely one *)
(* of the directions u->v, v->u is present, undirected_edge_exists(u, v)   *)
(* exactly when both are, edge_exists(u, v) exactly when at least one is.  *)
C28_EdgePredicates ==
    \A u, v \in Names :
        u # v =>
            /\ only_directed_edge_exists(G, u, v) = (Present(u, v) # Present(v, u))
            /\ undirected_edge_exists(G, u, v) = (Present(u, v) /\ Present(v, u))
            /\ edge_exists(G, u, v) = (Present(u, v) \/ Present(v, u))

(* C28, amended: only_directed_edge_exists(u, v) is true exactly when u->v  *)
(* is present and v->u is not; the other two predicates are as stated.     *)
C28_EdgePredicatesDirected ==
    \A u, v \in Names :
        u # v =>
            /\ only_directed_edge_exists(G, u, v) = (Present(u, v) /\ ~Present(v, u))
            /\ undirected_edge_exists(G, u, v) = (Present(u, v) /\ Present(v, u))
            /\ edge_exists(G, u, v) = (Present(u, v) \/ Present(v, u))

\* B->A alone is present: only_directed_edge_exists(A, B) is false, (B, A) true
C28_Witness ==
    /\ Present("B", "A") /\ ~Present("A", "B")
    /\ ~only_directed_edge_exists(G, "A", "B")
    /\ only_directed_edge_exists(G, "B", "A")
    /\ edge_exists(G, "A", "B")

----------------------------------------------------------------------------
\* every entry u->v of the adjacency is between two nodes
EdgesInNodes(g) ==
    \A u \in DOMAIN g.edges : \A v \in DOMAIN g.edges[u] : HasNode(g, u) /\ HasNode(g, v)

\* the step is a call of add_edge with a u or a v that is no node
AddEdgeOutside ==
    /\ op'.name = "add_edge"
    /\ ~HasNode(G, op'.u) \/ ~HasNode(G, op'.v)

(* C29: Edges reference only existing nodes.  After every call of          *)
(* add_node, add_edge, remove_edge, remove_directed_edge, update_edge,     *)
(* update_directed_edge and every apply pass, each entry u->v of the       *)
(* adjacency has u and v in the node set; add_edge with a node outside the *)
(* node set raises and changes nothing.                                    *)
C29_EdgesReferenceNodes ==
    [][/\ EdgesInNodes(GNext)
       /\ AddEdgeOutside =>
              /\ err' = UndirectedGraphError
              /\ nodes' = nodes
              /\ edges' = edges
              /\ edge_history' = edge_history]_vars

\* add_edge(A, C) was refused while the edge A-B was there
C29_Witness ==
    /\ op.name = "add_edge" /\ op.u = "A" /\ op.v = "C"
    /\ err = UndirectedGraphError
    /\ directed_edge_exists(G, "A", "B")
    /\ nodes = <<"B", "A">>

----------------------------------------------------------------------------
\* the adjacency e holds the entry a->b
EntryIn(e, a, b) == a \in DOMAIN e /\ b \in DOMAIN e[a]

\* the entries other than u->v are the same in e and f, payloads included
SameButFor(e, f, u, v) ==
    \A a, b \in Names :
        <<a, b>> # <<u, v>> =>
            /\ EntryIn(e, a, b) = EntryIn(f, a, b)
            /\ EntryIn(e, a, b) => e[a][b] = f[a][b]

(* C30: remove_directed_edge(u, v) on two nodes deletes only the entry     *)
(* u->v: it raises nothing, afterwards u->v is absent, the entry v->u with *)
(* its payload, every other entry and every history are as before; when    *)
(* u->v is absent nothing changes.                                         *)
C30_RemoveDirectedFrame ==
    [][(op'.name = "remove_directed_edge" /\ HasNode(G, op'.u) /\ HasNode(G, op'.v))
       => /\ err' = OK
          /\ ~EntryIn(edges', op'.u, op'.v)
          /\ SameButFor(edges, edges', op'.u, op'.v)
          /\ nodes' = nodes
          /\ edge_history' = edge_history
          /\ action_history' = action_history]_vars


(* C30, amended: remove_directed_edge(u, v) on two nodes leaves the entry  *)
(* v->u with its payload, every other entry and every history as before.   *)
(* When u and v both have an adjacency dict it raises nothing and u->v is  *)
(* absent afterwards; when one of them never had an edge it raises         *)
(* UndirectedGraphError and changes nothing.                               *)
C30_RemoveDirectedFrameOrRaise ==
    [][(op'.name = "remove_directed_edge" /\ HasNode(G, op'.u) /\ HasNode(G, op'.v))
       => /\ SameButFor(edges, edges', op'.u, op'.v)
          /\ nodes' = nodes
          /\ edge_history' = edge_history
          /\ action_history' = action_history
          /\ IF op'.u \in DOMAIN edges /\ op'.v \in DOMAIN edges
             THEN err' = OK /\ ~EntryIn(edges', op'.u, op'.v)
             ELSE err' = UndirectedGraphError /\ edges' = edges]_vars

\* remove_directed_edge(u, v) met both directions and left v->u with its payload
C30_Witness ==
    /\ op.name = "remove_directed_edge" /\ op.uv /\ op.vu
    /\ err = OK
    /\ ~EntryIn(edges, op.u, op.v)
    /\ EntryIn(edges, op.v, op.u)
    /\ edges[op.v][op.u] \in Data

----------------------------------------------------------------------------
\* results i < j of the batch name the same pair of nodes and both ask for a change
Conflict(items, i, j) ==
    /\ i < j
    /\ items[i].action \in Actionable /\ items[j].action \in Actionable
    /\ SamePair(items[i], items[j])

\* the ids of the TestResults of a list that the tests built, in list order
IdsOf(items) == [k \in DOMAIN SelectSeq(items, LAMBDA r : r.id # 0) |->
                    SelectSeq(items, LAMBDA r : r.id # 0)[k].id]

Increasing(ids) == \A i \in DOMAIN ids : \A j \in DOMAIN ids : i < j => ids[i] < ids[j]

----------------------------------------------------------------------------
(* C32: directed_path_exists(u, v) and directed_paths(u, v) terminate on   *)
(* every graph: for two nodes u, v of the graph the first returns True or  *)
(* False and the second returns its list; neither ends in the              *)
(* RecursionError of a call that never returns.                            *)
C32_PathQueriesTerminate ==
    \A u, v \in Range(nodes) :
        u # v => /\ directed_path_exists(G, u, v) # {Fail(RecursionError)}
                 /\ directed_paths(G, u, v).err # RecursionError

----------------------------------------------------------------------------
\* the directed adjacency entries of e
EntriesOf(e) == {p \in Names \X Names : EntryIn(e, p[1], p[2])}

(* C33: Apply never creates adjacency.  In every step of a pipeline        *)
(* execution the set of directed adjacency entries shrinks or stays the    *)
(* same: an entry that is absent before the step is absent after it, so an *)
(* oriented edge (only x->y present) never regains the entry y->x.         *)
C33_ApplyNeverCreates ==
    [][EntriesOf(edges') \subseteq EntriesOf(edges)]_vars

----------------------------------------------------------------------------
\* a Logic step is about to run a child that is a Logic step
NestedChild == pc = "child" /\ logic.children[logic.idx].kind # "Test"

(* C34: Nested control constructs.  When a Loop or an ApplyActionsTogether *)
(* comes to a child that is a Logic step, the child is run through its own *)
(* execute(graph, engine) as a top-level Logic step is: nothing is raised, *)
(* and the run goes on in the child's execute, at the while condition of a *)
(* Loop or at the first child or the apply of an ApplyActionsTogether.     *)
C34_NestedLogicRuns ==
    [][NestedChild => /\ err' = OK
                      /\ pc' \in {"loop", "child", "together"}]_vars

----------------------------------------------------------------------------
\* the directed adjacency entries when the running Logic step started
EntriesAtStart == Cardinality(EntriesOf(start.logic.edges))

(* C35: Fixpoint loop terminates on remove-only steps.  A Loop with the    *)
(* zero-actions exit condition whose child steps emit only removals has    *)
(* never run more than E + 1 rounds, E the number of directed adjacency    *)
(* entries at loop start (after n rounds that did not end the loop at      *)
(* least n - 1 entries are gone), and once started it reaches its end.     *)
C35_FixpointTerminates ==
    /\ [](logic.kind = "Loop" =>
             /\ logic.n <= EntriesAtStart + 1
             /\ logic.n <= EntriesAtStart - Cardinality(EntriesOf(edges)) + 1)
    /\ (pc = "loop" /\ logic.none) ~> (pc = "loop_done")

\* the loop ended after E + 1 = 3 rounds: two rounds removed one entry each
C35_Witness ==
    /\ pc = "loop_done"
    /\ EntriesAtStart = 2
    /\ logic.n = 3
    /\ edges = [A |-> EmptyDict, B |-> EmptyDict]

----------------------------------------------------------------------------
\* the orders of a list of n elements
Orders(n) == {f \in [1..n -> 1..n] : \A i, j \in 1..n : i # j => f[i] # f[j]}

\* the list in the order f
InOrder(items, f) == [k \in DOMAIN items |-> items[f[k]]]

RECURSIVE ApplyEach(_, _, _)
\* parallel mode, lines 473-475: one _take_action([result]) per result, in the
\* order of the list, its return value appended to the local actions_taken
ApplyEach(n, st, items) ==
    IF items = <<>> \/ st.err # OK THEN st
    ELSE LET r == _take_action(Graph(n, st.edges, st.hist), <<RetOne(Head(items))>>)
         IN  ApplyEach(n, Pass(r.edges, r.hist, r.err, st.actions \o r.actions), Tail(items))

\* the batch of the sequential step holds REMOVE_EDGE_UNDIRECTED results only
RemovalBatch ==
    /\ SeqApplied
    /\ Batch # <<>>
    /\ \A k \in DOMAIN Batch : Batch[k].action = REMOVE_EDGE_UNDIRECTED

(* C36: Order-independence of undirected removals.  For a batch of         *)
(* REMOVE_EDGE_UNDIRECTED results only, the adjacency and the number of    *)
(* applied actions after the apply pass are those of the pass over the     *)
(* batch in any other order, and those of one apply pass per result in any *)
(* order, as parallel mode runs them.                                      *)
C36_RemovalOrderIndependence ==
    RemovalBatch =>
        \A f \in Orders(Len(Batch)) :
            LET first == Pass(start.step.edges, start.step.hist, OK, <<>>)
                seq == TakeAll(nodes, first, InOrder(Batch, f))
                par == ApplyEach(nodes, first, InOrder(Batch, f))
            IN  /\ seq.err = OK /\ par.err = OK /\ err = OK
                /\ seq.edges = edges /\ par.edges = edges
                /\ Len(seq.actions) = Len(actions_taken)
                /\ Len(par.actions) = Len(actions_taken)

\* a batch of three removals that names a pair in both orders: the second of the
\* two was skipped, and the removal of another pair was applied
C36_Witness ==
    /\ RemovalBatch
    /\ Len(Batch) = 3
    /\ Len(actions_taken) = 2
    /\ \E i, j \in DOMAIN Batch :
           /\ i < j
           /\ Batch[i].x = Batch[j].y /\ Batch[i].y = Batch[j].x
           /\ Batch[i] \in Range(actions_taken)
           /\ Batch[j] \notin Range(actions_taken)

----------------------------------------------------------------------------
\* local_edges of the running size-pass, as a graph
Snapshot == Graph(nodes, start.step.edges, start.step.hist)

\* the pairs of local_edges the running pass has been through
PairsDone ==
    SubSeq(LocalPairs(Snapshot), 1, Len(LocalPairs(Snapshot)) - Len(iterator))

\* what the running pass has yielded
PassYields == SelectSeq(cands, LAMBDA e : e.i = pos)

(* C37: PairsWithNeighboursGenerator works on a consistent snapshot.       *)
(* Within a size-pass, whatever is applied to the graph between two        *)
(* yields, the pass has yielded for the pairs it has been through what it  *)
(* yields for them on the adjacency as it was when the pass started, and   *)
(* every tuple is a node followed by neighbours it had in that snapshot.   *)
C37_PairsSnapshot ==
    pc = "pass" =>
        /\ PassYields = Flatten([q \in DOMAIN PairsDone |->
                             PairYield(Snapshot, pos, PairsDone[q][1], PairsDone[q][2],
                                       step.name = "Chunked")])
        /\ \A k \in DOMAIN PassYields : \A t \in DOMAIN PassYields[k].tuples :
               \A m \in 2..Len(PassYields[k].tuples[t]) :
                   PassYields[k].tuples[t][m]
                       \in Range(NeighboursOf(Snapshot, PassYields[k].tuples[t][1]))

----------------------------------------------------------------------------
\* the size-2 pass of PairsWithNeighboursGenerator ran to its end
SeedPassRan ==
    /\ pc = "pairs_generated" /\ err = OK
    /\ pipeline_steps[1].cs.min = 2
    /\ Len(nodes) >= 2
    /\ PairsStop(G, pipeline_steps[1].cs) > 2

\* what the size-2 pass yielded, as the list of its tuples
Seeds ==
    LET pass == SelectSeq(cands, LAMBDA e : e.i = 2)
    IN  Flatten([k \in DOMAIN pass |-> pass[k].tuples])

(* C38: Seed deduplication.  The size-2 pass of PairsWithNeighboursGenerator *)
(* yields the tuple (node, neighbour) for every directed adjacency entry of *)
(* the graph, each exactly once, and nothing else: both (u, v) and (v, u)   *)
(* for an undirected edge, nothing for a pair without an entry.             *)
C38_SeedDeduplication ==
    SeedPassRan =>
        /\ \A i, j \in DOMAIN Seeds : i # j => Seeds[i] # Seeds[j]
        /\ Range(Seeds) = {<<u, v>> : u \in DOMAIN edges, v \in Range(nodes)}
                             \cap {p \in Range(nodes) \X Range(nodes) :
                                      directed_edge_exists(G, p[1], p[2])}
        /\ \A k \in DOMAIN cands : cands[k].i = 2 => ~cands[k].chunk

\* the pass on the graph over A, B, C without the edge A - B: four seeds
C38_Witness ==
    /\ SeedPassRan
    /\ nodes = <<"A", "B", "C">>
    /\ ~directed_edge_exists(G, "A", "B") /\ ~directed_edge_exists(G, "B", "A")
    /\ Range(Seeds) = {<<"A", "C">>, <<"C", "A">>, <<"B", "C">>, <<"C", "B">>}
    /\ Len(Seeds) = 4

----------------------------------------------------------------------------
\* the edges of a list of nodes, as directed_paths writes a path
EdgesOf(p) == [i \in 1..(Len(p) - 1) |-> <<p[i], p[i + 1]>>]

\* the simple directed paths from u to v, each as its sequence of edges
SimpleDirectedPaths(g, u, v) ==
    {EdgesOf(p) : p \in {p \in NodePaths(g, u, v) :
                            \A i \in 1..(Len(p) - 1) : directed_edge_exists(g, p[i], p[i + 1])}}

\* the sequence of pairs is a directed path from u to v in the adjacency
IsDirectedPath(g, path, u, v) ==
    /\ path # <<>>
    /\ path[1][1] = u /\ path[Len(path)][2] = v
    /\ \A i \in DOMAIN path : directed_edge_exists(g, path[i][1], path[i][2])
    /\ \A i \in 1..(Len(path) - 1) : path[i][2] = path[i + 1][1]

(* C39: directed_paths(u, v) returns all directed paths from u to v.  When *)
(* the call returns, every simple directed path from u to v is in the      *)
(* result as its sequence of edges, also when the entry u->v exists        *)
(* alongside longer paths, and every returned sequence is a directed path  *)
(* from u to v.                                                            *)
C39_AllDirectedPaths ==
    \A u, v \in Range(nodes) :
        (u # v /\ directed_paths(G, u, v).err = OK) =>
            /\ SimpleDirectedPaths(G, u, v) \subseteq directed_paths(G, u, v).paths
            /\ \A path \in directed_paths(G, u, v).paths : IsDirectedPath(G, path, u, v)

----------------------------------------------------------------------------
\* the nodes of the separating sets recorded in the REMOVE_EDGE_UNDIRECTED edge
\* history of (x, y)
Separators(x, y) ==
    IF <<x, y>> \notin DOMAIN edge_history THEN {}
    ELSE {z \in Names : \E k \in DOMAIN edge_history[<<x, y>>] :
                            /\ edge_history[<<x, y>>][k].action = REMOVE_EDGE_UNDIRECTED
                            /\ edge_history[<<x, y>>][k].data = SeparatedBy[z]}

(* C40: Collider orientation consults the separating set.  When            *)
(* UnshieldedTriplesTest has returned the two REMOVE_EDGE_DIRECTED results *)
(* z->x and z->y for the candidate (x, y), z is not part of a separating   *)
(* set recorded in the REMOVE_EDGE_UNDIRECTED edge history of (x, y).      *)
C40_ColliderConsultsSeparators ==
    (/\ pc = "tested"
     /\ op.name = "UnshieldedTriplesTest"
     /\ iterator[1].tag = "list")
        => /\ iterator[1].rs[1].action = REMOVE_EDGE_DIRECTED
           /\ iterator[1].rs[2].action = REMOVE_EDGE_DIRECTED
           /\ iterator[1].rs[1].y = op.u /\ iterator[1].rs[2].y = op.v
           /\ iterator[1].rs[1].x = iterator[1].rs[2].x
           /\ iterator[1].rs[1].x \notin Separators(op.u, op.v)

====
